---- MODULE Spec2Model ----
(***************************************************************************)
(* A model of the ADIv5 engine (src/src/target/adiv5.c) and of the SAM D   *)
(* Flash driver (src/src/target/samd.c) of the Black Magic Debug firmware. *)
(*                                                                         *)
(* The module holds five state machines that share one set of variables:   *)
(*   SpecHalt  cortexm_initial_halt and cortexm_prepare                    *)
(*   SpecSamd  samd_flash_erase, samd_flash_write, samd_mass_erase         *)
(*   SpecMem   firmware_mem_read, firmware_mem_write_sized, adiv5_mem_write*)
(*   SpecRom   adiv5_component_probe (the ROM-table walk)                  *)
(*   SpecDp    the AP enumeration of adiv5_dp_init                         *)
(* Each specification leaves the variables of the others at their initial  *)
(* values.                                                                 *)
(*                                                                         *)
(* 32-bit register values that are only masked and tested are sets of bit  *)
(* positions (0xffffffff is 0..31); a 32-bit data word is a sequence of    *)
(* four bytes, least significant first.                                    *)
(***************************************************************************)
EXTENDS Integers, Sequences, FiniteSets, TLC

VARIABLES
    \* ---- cortexm_initial_halt / cortexm_prepare ----
    h_pc,                 \* position: "idle", "halt_loop", "halt_ret", "reset_poll", "done"
    connect_assert_nrst,  \* the global connect-under-reset flag
    mindp,                \* ap->dp->mindp
    reset_seen,           \* local of cortexm_initial_halt
    trncnt,               \* local of cortexm_initial_halt
    trncnt_written,       \* the TRNCNT value last written to CTRLSTAT (-1: none)
    h_elapsed,            \* platform_time_ms() - start_time
    halt_dhcsr,           \* what cortexm_initial_halt returned (a bit set; {} is 0)
    prepare_ret,          \* what cortexm_prepare returned: "none", "true", "false"
    ap_cortexm_demcr,     \* ap->ap_cortexm_demcr: "unset" or "saved"
    demcr_written,        \* DEMCR was written with TRCENA | VC_HARDERR | VC_CORERESET
    nrst_released,        \* platform_nrst_set_val(false) was called
    h_ops,                \* what cortexm_prepare did to DEMCR, nRST and DHCSR, in order
    \* ---- SAM D Flash driver ----
    s_pc,                 \* "idle", "erase_poll", "write_poll", "me_poll", "row_poll",
                          \* "done", "fault"
    s_op,                 \* "none", "erase", "write", "mass_erase", "parse",
                          \* "set_flashlock", "set_bootprot", "probe"
    s_addr,               \* addr of samd_flash_erase / dest of samd_flash_write
    s_len,                \* len still to erase
    s_req,                \* the request: <<addr, len>>, or <<value, 0>>
    s_ret,                \* the result once s_pc = "done": an int, a bool as 1 or 0
    nvmc_address,         \* the NVMC ADDRESS register (a half-word address)
    row_erased,           \* the Flash rows of which every byte reads 0xFF
    region_locked,        \* the Flash rows whose region the NVMC holds locked
    nvmc_log,             \* the NVMC accesses: ADDRESS and CTRLA writes, READY seen
    adi_error,            \* an ADI sticky error is latched
    ready_seen,           \* the last INTFLAG sample had READY set
    error_at_ready,       \* history: adi_error when READY was last read as 1
    s_spin,               \* history: the INTFLAG polls of this call so far, modulo 2
    me_elapsed,           \* ms since the mass-erase timeout was (re)armed
    me_ticks,             \* progress ticks printed: expiries of the 500 ms timeout seen
    me_status,            \* the last DSU CTRLSTAT status bits read
    user_row,             \* the NVM user row: its low and high word, each as
                          \* << bits 31..16, bits 15..0 >>
    ur_saved,             \* the user row as the call read it (its low and high)
    poll_error,           \* history: target_check_error ended the poll loop
    tc_out,               \* the messages tc_printf has printed
    tgt,                  \* the target samd_probe works on: what the probe has set
    calloc_failed,        \* history: a calloc of samd_probe returned NULL
    a_log,                \* the calls of t->attach: the hook run, CRSTEXT, what it did
    hr_depth,             \* the nesting of calls of t->halt_resume
    hr_ops,               \* what the calls of t->halt_resume did, in order
    p_did,                \* the DID samd_parse_device_id was called with
    p_samd,               \* the struct samd_descr it returned
    \* ---- AP memory transfers ----
    m_pc,                 \* "idle", "rd_loop", "rd_done", "wr_loop", "wr_done"
    m_mode,               \* "read" (then written back) or "write"
    m_src,                \* src / dest: the running address of the transfer
    m_osrc,               \* osrc / odest
    m_len,                \* len (elements still to go, as the code counts them)
    m_align,              \* align: 0, 1, 2
    m_req,                \* the request: << address, len >>
    m_buf,                \* dest of a read / src of a write: a sequence of bytes
    m_pos,                \* bytes of m_buf filled (read) or consumed (write)
    m_written,            \* target memory: the bytes written so far (address -> byte)
    m_seed,               \* selects the initial target memory content
    ap_wraps,             \* the AP's TAR increment wraps inside a 1 KiB window
    ap_fills,             \* the AP returns the whole bus word, not only the lanes read
    ap_tar,               \* the AP's TAR
    ap_posted,            \* the address of the read the AP has posted (-1: none)
    ap_log,               \* the AP/DP transactions issued, in order
    \* ---- ROM-table walk ----
    r_stack,              \* the call stack of adiv5_component_probe
    r_rom,                \* the AP's memory: page -> [kind, entries]
    r_probed,             \* the component base pages read (CIDR), in order
    r_done,               \* the walk returned to its caller
    r_reads,              \* the ROM table entries read: << depth, page, i, faulted >>
    r_call,               \* the latest call of adiv5_component_probe: its recursion,
                          \* what the component identified as, what the call did
    r_cortexm,            \* calls of cortexm_probe for a protected SAMx5x
    \* ---- adiv5_dp_init: AP enumeration ----
    d_pc,                 \* "idle", "enum", "returned"
    d_i,                  \* the loop index i
    invalid_aps,          \* invalid_aps
    last_base,            \* last_base
    d_consecutive,        \* history: invalid APs since the last valid one
    d_how,                \* how enumeration ended: "none", "all", "limit", "duplicate"
    target_list,          \* the targets the probes have linked
    d_resumed,            \* the targets target_halt_resume(t, false) was called for
    d_first_valid_dup,    \* history: the first valid AP was rejected as a duplicate
    d_valid_seen,         \* history: a valid AP was seen before the current one
    d_cur,                \* history: the last valid AP: apsel, BASE, what was done with it
    d_prev,               \* history: the AP a duplicate BASE was compared with
    dp,                   \* the DP object: refcnt, times freed, touched after free
    aps,                  \* the AP objects targets hold: refcnt, times freed
    ap_allocs,            \* AP objects allocated
    ap_frees,             \* AP objects freed
    \* ---- adiv5_dp_init: up to the AP enumeration ----
    i_pc,                 \* "idle", "identified", "selected", "pwr_wait", "rst_wait",
                          \* "enum", "returned", "raised"
    i_version,            \* dp->version
    i_designer,           \* dp->designer_code
    i_partno,             \* dp->partno
    i_mindp,              \* dp->mindp
    i_select,             \* the bank the DP's SELECT register holds
    i_ctrlstat,           \* ctrlstat
    i_elapsed,            \* ms since platform_timeout_set(&timeout, 201)
    i_log,                \* the DP transactions issued, in order
    i_rescue,             \* the APs handed to rp_rescue_probe
    i_how,                \* how adiv5_dp_init left before the enumeration
    \* ---- adiv5_new_ap ----
    n_call,                \* the call of adiv5_new_ap: what it read and what it gave
    \* ---- DP SELECT and the AP accesses ----
    dp_select,            \* the value last written to DP SELECT
    sel_pc,               \* "idle", "mem", "halt_low", "halt_mem"
    sel_ap,               \* apsel of the AP the running routine works on
    sel_last              \* the AP register accesses of the last step

haltVars == << h_pc, connect_assert_nrst, mindp, reset_seen, trncnt, trncnt_written,
               h_elapsed, halt_dhcsr, prepare_ret, ap_cortexm_demcr, demcr_written,
               nrst_released, h_ops >>

samdVars == << s_pc, s_op, s_addr, s_len, s_req, s_ret, nvmc_address, row_erased,
               region_locked, nvmc_log, adi_error, ready_seen, error_at_ready,
               s_spin, me_elapsed, me_ticks, me_status, user_row, ur_saved,
               poll_error, tc_out, tgt, calloc_failed, a_log, hr_depth, hr_ops,
               p_did, p_samd >>

probeVars == << tgt, calloc_failed, a_log, hr_depth, hr_ops >>

memVars == << m_pc, m_mode, m_src, m_osrc, m_len, m_align, m_req, m_buf, m_pos,
              m_written, m_seed, ap_wraps, ap_fills, ap_tar, ap_posted, ap_log >>

romVars == << r_stack, r_rom, r_probed, r_done, r_reads, r_call, r_cortexm >>

selVars == << dp_select, sel_pc, sel_ap, sel_last >>

apVars == << n_call, selVars >>

initVars == << i_pc, i_version, i_designer, i_partno, i_mindp, i_select, i_ctrlstat,
               i_elapsed, i_log, i_rescue, i_how >>

enumVars == << d_pc, d_i, invalid_aps, last_base, d_consecutive, d_how,
               target_list, d_resumed, d_first_valid_dup, d_valid_seen, d_cur, d_prev,
               aps, ap_allocs, ap_frees >>

dpVars == << d_pc, d_i, invalid_aps, last_base, d_consecutive, d_how,
             target_list, d_resumed, d_first_valid_dup, d_valid_seen, d_cur, d_prev,
             dp, aps, ap_allocs, ap_frees, initVars, apVars >>

\* The largest step of the millisecond clock between two looks at it.
MaxDt == 1200

\* The Flash region has FlashRows rows of SAMD_ROW_SIZE bytes.
FlashRows == 3

\* AP memory transfers start and end within MemSpan bytes of a 1 KiB boundary
\* and are at most MaxLen bytes long.
MemSpan == 8
MaxLen == 8

\* No call of adiv5_component_probe was made yet.
NoCall ==
    [ recursion |-> 0, id |-> [ designer |-> "arm", partno |-> 0, ctrlstat |-> 0 ],
      outcome |-> "none" ]

\* The AP's memory holds components on 4 KiB pages 1 .. RomPages, a ROM table
\* has at most MaxEntries entries before its terminator, and the walk is
\* followed to MaxDepth nested calls.
RomPages == 2
MaxEntries == 1
MaxDepth == 3

\* The targets the probes of one scan link at most, and the references
\* drivers hold on one AP at most.
MaxTargets == 1
MaxRefs == 2

\* The progress ticks after which the model stops following a mass erase.
MaxTicks == 2

\* The DIDs samd_parse_device_id is called with: their four fields up to
MaxFamily == 2
MaxSeries == 5
MaxRevision == 1
MaxDevsel == 16

\* The APs whose registers are accessed: apsel 0 .. MaxApsel
MaxApsel == 3

vars == << haltVars, samdVars, memVars, romVars, dpVars >>

(***************************************************************************)
(* The variables of a state machine while another one runs.                *)
(***************************************************************************)
HaltQuiet ==
    /\ h_pc = "idle" /\ mindp = FALSE
    /\ reset_seen = FALSE /\ trncnt = 0 /\ trncnt_written = -1 /\ h_elapsed = 0
    /\ halt_dhcsr = {} /\ prepare_ret = "none" /\ ap_cortexm_demcr = "unset"
    /\ demcr_written = FALSE /\ nrst_released = FALSE /\ h_ops = << >>

HaltIdle == HaltQuiet /\ connect_assert_nrst = FALSE

\* The NVM user row of a part as shipped: BOOTPROT 7 (no boot loader
\* protection) and every LOCK bit 1 (no region locked).
UserRowErased == [low |-> << 65535, 65535 >>, high |-> << 65535, 65535 >>]

\* struct samd_descr before samd_parse_device_id has run
NoDescr ==
    [family |-> "", series |-> 0, revision |-> "", pin |-> "", ram_size |-> 0,
     flash_size |-> 0, mem |-> 0, variant |-> "", package |-> ""]

\* The target as samd_probe finds it: no hook of this driver, no storage, no
\* memory region and no command list of it.
NewTarget ==
    [hooks |-> {}, target_storage |-> "unset", driver |-> << >>, ram |-> << >>,
     flash |-> << >>, commands |-> << >>, crstext_cleared |-> FALSE]

SamdQuiet ==
    /\ tgt = NewTarget /\ calloc_failed = FALSE
    /\ a_log = << >> /\ hr_depth = 0 /\ hr_ops = << >>
    /\ ur_saved = UserRowErased /\ poll_error = FALSE /\ tc_out = << >>
    /\ p_did = 0 /\ p_samd = NoDescr

SamdIdle ==
    /\ user_row = UserRowErased /\ SamdQuiet
    /\ s_pc = "idle" /\ s_op = "none" /\ s_addr = 0 /\ s_len = 0 /\ s_req = << 0, 0 >>
    /\ s_ret = 0 /\ nvmc_address = 0 /\ row_erased = {}
    /\ region_locked = {} /\ nvmc_log = << >> /\ adi_error = FALSE
    /\ ready_seen = FALSE /\ error_at_ready = FALSE /\ s_spin = 0
    /\ me_elapsed = 0 /\ me_ticks = 0 /\ me_status = {}

MemIdle ==
    /\ m_pc = "idle" /\ m_mode = "none" /\ m_src = 0 /\ m_osrc = 0 /\ m_len = 0
    /\ m_align = 0 /\ m_req = << >> /\ m_buf = << >> /\ m_pos = 0
    /\ m_written = << >> /\ m_seed = 0 /\ ap_wraps = TRUE /\ ap_fills = FALSE
    /\ ap_tar = 0 /\ ap_posted = -1
    /\ ap_log = << >>

RomIdle ==
    /\ r_stack = << >> /\ r_rom = << >> /\ r_probed = << >> /\ r_done = FALSE
    /\ r_reads = << >> /\ r_call = NoCall /\ r_cortexm = 0

SelIdle == dp_select = 0 /\ sel_pc = "idle" /\ sel_ap = 0 /\ sel_last = << >>

DpIdle ==
    /\ d_pc = "idle" /\ d_i = 0 /\ invalid_aps = 0 /\ last_base = 0
    /\ d_consecutive = 0 /\ d_how = "none"
    /\ target_list = {} /\ d_resumed = {} /\ d_first_valid_dup = FALSE
    /\ d_valid_seen = FALSE
    /\ d_cur = [ apsel |-> -1, base |-> -1, ops |-> << >> ]
    /\ d_prev = [ apsel |-> -1, base |-> -1, ops |-> << >> ]
    /\ dp = [ refcnt |-> 0, frees |-> 0, stale |-> FALSE ]
    /\ aps = << >> /\ ap_allocs = 0 /\ ap_frees = 0
    /\ i_pc = "idle" /\ i_version = 0 /\ i_designer = "zero" /\ i_partno = 0
    /\ i_mindp = FALSE /\ i_select = 0 /\ i_ctrlstat = {} /\ i_elapsed = 0
    /\ i_log = << >> /\ i_rescue = << >> /\ i_how = "none"
    /\ n_call = << >> /\ SelIdle

(***************************************************************************)
(*                cortexm_initial_halt and cortexm_prepare                 *)
(***************************************************************************)

\* Bit positions of DHCSR (ARMv7-M: C_DEBUGEN bit 0, S_HALT bit 17,
\* S_RESET_ST bit 25), as the CORTEXM_DHCSR_* masks of cortexm.h name them.
CORTEXM_DHCSR_C_DEBUGEN == 0
CORTEXM_DHCSR_C_HALT == 1
CORTEXM_DHCSR_S_HALT == 17
CORTEXM_DHCSR_S_RESET_ST == 25

\* 0xffffffff
AllOnes == 0 .. 31

\* 0xf000fff0, the bits that read as zero
DhcsrRazBits == (4 .. 15) \cup (28 .. 31)

\* dhcsr_valid = CORTEXM_DHCSR_S_HALT | CORTEXM_DHCSR_C_DEBUGEN
dhcsr_valid == { CORTEXM_DHCSR_S_HALT, CORTEXM_DHCSR_C_DEBUGEN }

\* cortexm_wait_timeout, in ms (the firmware's default)
cortexm_wait_timeout == 2000

\* The steps by which platform_time_ms() advances between two looks at it.
DtChoices == { 0, MaxDt \div 2, MaxDt }

\* The DHCSR values the target returns: every combination of the bits the
\* code tests and of one reserved bit, and the invalid read 0xffffffff.
DhcsrSamples ==
    (SUBSET { CORTEXM_DHCSR_C_DEBUGEN, CORTEXM_DHCSR_C_HALT, CORTEXM_DHCSR_S_HALT,
              CORTEXM_DHCSR_S_RESET_ST, 5 }) \cup { AllOnes }

\* platform_timeout_is_expired, for a timeout of ms armed elapsed ms ago
platform_timeout_is_expired(elapsed, ms) == elapsed > ms

\* (dhcsr != 0xffffffffU) && ((dhcsr & 0xf000fff0U) == 0)
DhcsrReadIsValid(dhcsr) == dhcsr # AllOnes /\ dhcsr \cap DhcsrRazBits = {}

\* HaltDecision with the test of connect_assert_nrst left out: a sample in
\* reset ends the loop at once.
HaltDecision_ReturnsOnAnyReset(dhcsr, seen, connect) ==
    IF DhcsrReadIsValid(dhcsr)
    THEN IF CORTEXM_DHCSR_S_RESET_ST \in dhcsr /\ ~seen
         THEN "return"
         ELSE IF dhcsr \cap dhcsr_valid = dhcsr_valid THEN "return" ELSE "again"
    ELSE "again"

\* What one iteration of the halt loop does with the DHCSR value it read:
\* "return" it, "latch" reset_seen and go on, or go on ("again").
HaltDecision(dhcsr, seen, connect) ==
    IF DhcsrReadIsValid(dhcsr)
    THEN IF CORTEXM_DHCSR_S_RESET_ST \in dhcsr /\ ~seen
         THEN IF connect THEN "return" ELSE "latch"
         ELSE IF dhcsr \cap dhcsr_valid = dhcsr_valid THEN "return" ELSE "again"
    ELSE "again"

\* trncnt after one iteration, at elapsed ms after start_time
NextTrncnt(t, elapsed) == IF t < 4095 THEN t + elapsed * 8 ELSE 4095

\* cortexm_prepare is entered and calls cortexm_initial_halt, up to its loop.
PrepareCall ==
    /\ h_pc = "idle"
    /\ h_pc' = "halt_loop"
    /\ trncnt' = 128
    /\ reset_seen' = FALSE
    /\ h_elapsed' = 0
    /\ UNCHANGED << connect_assert_nrst, mindp, trncnt_written, halt_dhcsr, prepare_ret,
                    ap_cortexm_demcr, demcr_written, nrst_released, h_ops >>
    /\ UNCHANGED << samdVars, memVars, romVars, dpVars >>

\* The halt loop ends on its timeout: cortexm_initial_halt returns 0.
InitialHaltExpired ==
    /\ h_pc = "halt_loop"
    /\ platform_timeout_is_expired(h_elapsed, cortexm_wait_timeout)
    /\ halt_dhcsr' = {}
    /\ h_pc' = "halt_ret"
    /\ UNCHANGED << connect_assert_nrst, mindp, reset_seen, trncnt, trncnt_written,
                    h_elapsed, prepare_ret, ap_cortexm_demcr, demcr_written,
                    nrst_released, h_ops >>
    /\ UNCHANGED << samdVars, memVars, romVars, dpVars >>

\* One iteration of the halt loop: the target returns dhcsr, dt ms pass.
InitialHaltIterate(dhcsr, dt) ==
    /\ h_pc = "halt_loop"
    /\ ~platform_timeout_is_expired(h_elapsed, cortexm_wait_timeout)
    /\ h_elapsed' = h_elapsed + dt
    /\ IF ~mindp
       THEN /\ trncnt_written' = trncnt
            /\ trncnt' = NextTrncnt(trncnt, h_elapsed')
       ELSE UNCHANGED << trncnt, trncnt_written >>
    /\ LET what == HaltDecision(dhcsr, reset_seen, connect_assert_nrst) IN
       /\ reset_seen' = (reset_seen \/ what = "latch")
       /\ IF what = "return"
          THEN halt_dhcsr' = dhcsr /\ h_pc' = "halt_ret"
          ELSE UNCHANGED << halt_dhcsr, h_pc >>
    /\ UNCHANGED << connect_assert_nrst, mindp, prepare_ret, ap_cortexm_demcr,
                    demcr_written, nrst_released, h_ops >>
    /\ UNCHANGED << samdVars, memVars, romVars, dpVars >>

\* What cortexm_prepare does once cortexm_initial_halt returned non-zero, up
\* to the poll of DHCSR: DEMCR is read into ap->ap_cortexm_demcr, DEMCR is
\* written, nRST is deasserted. The poll itself is recorded once in h_ops,
\* however many reads it takes.
PrepareOps_NrstFirst == << "nrst_release", "read_demcr", "write_demcr" >>
PrepareOps == << "read_demcr", "write_demcr", "nrst_release" >>

\* cortexm_prepare after cortexm_initial_halt returned: give up on 0, else save
\* DEMCR, write it, release nRST and arm the reset timeout.
PrepareAfterHalt ==
    /\ h_pc = "halt_ret"
    /\ IF halt_dhcsr = {}
       THEN /\ prepare_ret' = "false"
            /\ h_pc' = "done"
            /\ UNCHANGED << ap_cortexm_demcr, demcr_written, nrst_released, h_elapsed,
                            h_ops >>
       ELSE /\ ap_cortexm_demcr' = "saved"
            /\ demcr_written' = TRUE
            /\ nrst_released' = TRUE
            /\ h_ops' = h_ops \o PrepareOps
            /\ h_elapsed' = 0
            /\ h_pc' = "reset_poll"
            /\ UNCHANGED prepare_ret
    /\ UNCHANGED << connect_assert_nrst, mindp, reset_seen, trncnt, trncnt_written,
                    halt_dhcsr >>
    /\ UNCHANGED << samdVars, memVars, romVars, dpVars >>

\* One iteration of the reset-release poll of cortexm_prepare.
PrepareResetPoll(dhcsr, dt) ==
    /\ h_pc = "reset_poll"
    /\ h_elapsed' = h_elapsed + dt
    /\ h_ops' = IF h_ops[Len(h_ops)] = "poll_dhcsr" THEN h_ops
                ELSE Append(h_ops, "poll_dhcsr")
    /\ IF CORTEXM_DHCSR_S_RESET_ST \notin dhcsr
       THEN prepare_ret' = "true" /\ h_pc' = "done"
       ELSE IF platform_timeout_is_expired(h_elapsed', cortexm_wait_timeout)
            THEN prepare_ret' = "false" /\ h_pc' = "done"
            ELSE UNCHANGED << prepare_ret, h_pc >>
    /\ UNCHANGED << connect_assert_nrst, mindp, reset_seen, trncnt, trncnt_written,
                    halt_dhcsr, ap_cortexm_demcr, demcr_written, nrst_released >>
    /\ UNCHANGED << samdVars, memVars, romVars, dpVars >>

InitHalt ==
    /\ h_pc = "idle"
    /\ connect_assert_nrst \in BOOLEAN
    /\ mindp \in BOOLEAN
    /\ reset_seen = FALSE /\ trncnt = 0 /\ trncnt_written = -1 /\ h_elapsed = 0
    /\ halt_dhcsr = {} /\ prepare_ret = "none" /\ ap_cortexm_demcr = "unset"
    /\ demcr_written = FALSE /\ nrst_released = FALSE /\ h_ops = << >>
    /\ SamdIdle /\ MemIdle /\ RomIdle /\ DpIdle

NextHalt ==
    \/ PrepareCall
    \/ InitialHaltExpired
    \/ \E dhcsr \in DhcsrSamples, dt \in DtChoices : InitialHaltIterate(dhcsr, dt)
    \/ PrepareAfterHalt
    \/ \E dhcsr \in DhcsrSamples, dt \in DtChoices : PrepareResetPoll(dhcsr, dt)

SpecHalt == InitHalt /\ [][NextHalt]_vars

\* C1 as stated: whenever cortexm_prepare returns true, the DHCSR value on
\* which cortexm_initial_halt reported success had C_DEBUGEN and S_HALT set.
C1_HaltedWheneverPrepared ==
    prepare_ret = "true" =>
        { CORTEXM_DHCSR_C_DEBUGEN, CORTEXM_DHCSR_S_HALT } \subseteq halt_dhcsr

\* C1 (amended): whenever cortexm_prepare returns true, the DHCSR value on
\* which cortexm_initial_halt reported success was a valid read (not
\* 0xffffffff, reserved bits zero) that had C_DEBUGEN and S_HALT set or, with
\* connect-under-reset requested only, had S_RESET_ST set.
C1_HaltedOrConnectUnderReset ==
    prepare_ret = "true" =>
        /\ DhcsrReadIsValid(halt_dhcsr)
        /\ \/ { CORTEXM_DHCSR_C_DEBUGEN, CORTEXM_DHCSR_S_HALT } \subseteq halt_dhcsr
           \/ connect_assert_nrst /\ CORTEXM_DHCSR_S_RESET_ST \in halt_dhcsr

\* C1 witness: cortexm_prepare returned true without connect-under-reset,
\* after a first sample in reset was tolerated.
C1_Witness ==
    /\ prepare_ret = "true"
    /\ ~connect_assert_nrst
    /\ reset_seen
    /\ { CORTEXM_DHCSR_C_DEBUGEN, CORTEXM_DHCSR_S_HALT } \subseteq halt_dhcsr

(***************************************************************************)
(*         samd_flash_erase, samd_flash_write and samd_mass_erase          *)
(***************************************************************************)

SAMD_ROW_SIZE == 256
SAMD_PAGE_SIZE == 64
SAMD_CTRLA_CMD_KEY == 42240
SAMD_CTRLA_CMD_ERASEROW == 2
SAMD_CTRLA_CMD_WRITEPAGE == 4
SAMD_CTRLA_CMD_LOCK == 64
SAMD_CTRLA_CMD_UNLOCK == 65

\* The timeout samd_mass_erase arms, in ms
MassEraseTimeout == 500

\* The status bits of DSU CTRLSTAT that end the mass-erase poll
SAMD_STATUSA_BITS == { "DONE", "PERR", "FAIL" }

\* f->start, f->length and f->blocksize of the region samd_add_flash adds
FlashStart == 0
FlashLength == FlashRows * SAMD_ROW_SIZE
FlashBlocksize == SAMD_ROW_SIZE

Rows == 0 .. (FlashRows - 1)

\* The rows that hold a byte of [a, a + n)
RowsOfRange(a, n) == { r \in Rows : \E b \in a .. (a + n - 1) : b \div SAMD_ROW_SIZE = r }

\* The NVMC: the row that the half-word address in ADDRESS lies in
RowOfNvmcAddress(hw) == (hw * 2) \div SAMD_ROW_SIZE

\* addr >> 1, the value samd_flash_erase writes to NVMC ADDRESS
EraseAddressValue_Unshifted(addr) == addr
EraseAddressValue(addr) == addr \div 2

\* The NVMC: the effect of a command word written to CTRLA on the rows that
\* read erased. ERASEROW erases the row ADDRESS lies in, unless its region is
\* locked; WRITEPAGE programs a page of that row.
NvmcErased(word, hw, erased, locked) ==
    LET op == word % 256
        key == word - op
        row == RowOfNvmcAddress(hw)
    IN  IF key # SAMD_CTRLA_CMD_KEY \/ row \in locked THEN erased
        ELSE IF op = SAMD_CTRLA_CMD_ERASEROW THEN erased \cup ({ row } \cap Rows)
        ELSE IF op = SAMD_CTRLA_CMD_WRITEPAGE THEN erased \ { row }
        ELSE erased

\* The NVMC: the effect of a command word on the locked regions (a region is
\* one row here).
NvmcLocked(word, hw, locked) ==
    LET op == word % 256
        key == word - op
        row == RowOfNvmcAddress(hw)
    IN  IF key # SAMD_CTRLA_CMD_KEY THEN locked
        ELSE IF op = SAMD_CTRLA_CMD_UNLOCK THEN locked \ { row }
        ELSE IF op = SAMD_CTRLA_CMD_LOCK THEN locked \cup ({ row } \cap Rows)
        ELSE locked

\* samd_unlock_current_address and samd_lock_current_address: the word written
UnlockWord == SAMD_CTRLA_CMD_KEY + SAMD_CTRLA_CMD_UNLOCK
LockWord_NoKey == SAMD_CTRLA_CMD_LOCK
LockWord == SAMD_CTRLA_CMD_KEY + SAMD_CTRLA_CMD_LOCK
EraseRowWord == SAMD_CTRLA_CMD_KEY + SAMD_CTRLA_CMD_ERASEROW
WritePageWord == SAMD_CTRLA_CMD_KEY + SAMD_CTRLA_CMD_WRITEPAGE

\* One access to the NVMC as the log keeps it: a write of val to ADDRESS or
\* CTRLA, or the read of INTFLAG that shows READY.
NvmcAccess(reg, val) == [ reg |-> reg, val |-> val ]
ReadyRead == NvmcAccess("INTFLAG", 1)

\* The command and the key of a word written to CTRLA.
CmdOf(word) == word % 256
KeyOf(word) == word - (word % 256)

\* len after one row: if (len > f->blocksize) len -= f->blocksize; else len = 0;
EraseRemaining_Once(len) == 0
EraseRemaining(len) == IF len > FlashBlocksize THEN len - FlashBlocksize ELSE 0

\* The lengths samd_flash_erase is called with at addr: whole rows, and
\* lengths that end one byte into or one byte short of a row.
EraseLens(addr) ==
    { k * SAMD_ROW_SIZE + d : k \in 0 .. FlashRows, d \in { 0, 1, SAMD_ROW_SIZE - 1 } }
        \cap (0 .. (FlashStart + FlashLength - addr))

\* samd_flash_erase(f, addr, len) is called.
FlashEraseCall(addr, len) ==
    /\ s_pc = "idle"
    /\ s_op' = "erase"
    /\ s_req' = << addr, len >>
    /\ s_addr' = addr
    /\ s_len' = len
    /\ s_pc' = "erase_head"
    /\ UNCHANGED << s_ret, nvmc_address, row_erased, region_locked, nvmc_log,
                    adi_error, ready_seen, error_at_ready, me_elapsed, me_ticks,
                    me_status >>
    /\ UNCHANGED << s_spin, user_row, ur_saved, poll_error, p_did, p_samd >>
    /\ UNCHANGED tc_out
    /\ UNCHANGED << probeVars, haltVars, memVars, romVars, dpVars >>

\* while (len) is false: samd_flash_erase returns 0.
FlashEraseReturn ==
    /\ s_pc = "erase_head"
    /\ s_len = 0
    /\ s_ret' = 0
    /\ s_pc' = "done"
    /\ UNCHANGED << s_op, s_req, s_addr, s_len, nvmc_address, row_erased, region_locked,
                    nvmc_log, adi_error, ready_seen, error_at_ready, me_elapsed, me_ticks,
                    me_status >>
    /\ UNCHANGED << s_spin, user_row, ur_saved, poll_error, p_did, p_samd >>
    /\ UNCHANGED tc_out
    /\ UNCHANGED << probeVars, haltVars, memVars, romVars, dpVars >>

\* One row: ADDRESS is written, then UNLOCK, then ERASEROW; a transaction may
\* latch an ADI error (err).
FlashEraseRow(err) ==
    /\ s_pc = "erase_head"
    /\ s_len # 0
    /\ LET hw == EraseAddressValue(s_addr)
           unlocked == NvmcLocked(UnlockWord, hw, region_locked)
       IN  /\ nvmc_address' = hw
           /\ region_locked' = unlocked
           /\ row_erased' = NvmcErased(EraseRowWord, hw, row_erased, unlocked)
    /\ nvmc_log' = nvmc_log \o << NvmcAccess("ADDRESS", EraseAddressValue(s_addr)),
                                   NvmcAccess("CTRLA", UnlockWord),
                                   NvmcAccess("CTRLA", EraseRowWord) >>
    /\ adi_error' = (adi_error \/ err)
    /\ ready_seen' = FALSE
    /\ UNCHANGED error_at_ready
    /\ s_pc' = "erase_poll"
    /\ UNCHANGED << s_op, s_req, s_addr, s_len, s_ret, me_elapsed, me_ticks, me_status >>
    /\ UNCHANGED << s_spin, user_row, ur_saved, poll_error, p_did, p_samd >>
    /\ UNCHANGED tc_out
    /\ UNCHANGED << probeVars, haltVars, memVars, romVars, dpVars >>

\* One poll of INTFLAG in samd_flash_erase: READY reads ready; when it is 0,
\* target_check_error decides; when it is 1, LOCK is written and the loop goes
\* to the next row.
FlashErasePoll(ready, err) ==
    /\ s_pc = "erase_poll"
    /\ ready_seen' = ready
    /\ error_at_ready' = IF ready THEN (adi_error \/ err) ELSE error_at_ready
    /\ IF ready
       THEN /\ region_locked' = NvmcLocked(LockWord, nvmc_address, region_locked)
            /\ nvmc_log' = nvmc_log \o << ReadyRead, NvmcAccess("CTRLA", LockWord) >>
            /\ s_addr' = s_addr + FlashBlocksize
            /\ s_len' = EraseRemaining(s_len)
            /\ adi_error' = (adi_error \/ err)
            /\ s_pc' = "erase_head"
            /\ UNCHANGED s_ret
       ELSE /\ IF adi_error \/ err
               THEN s_ret' = -1 /\ s_pc' = "done"
               ELSE UNCHANGED << s_ret, s_pc >>
            /\ adi_error' = FALSE
            /\ UNCHANGED << region_locked, nvmc_log, s_addr, s_len >>
    /\ UNCHANGED << s_op, s_req, nvmc_address, row_erased, me_elapsed, me_ticks,
                    me_status >>
    /\ s_spin' = 1 - s_spin
    /\ UNCHANGED << user_row, ur_saved, poll_error, p_did, p_samd >>
    /\ UNCHANGED tc_out
    /\ UNCHANGED << probeVars, haltVars, memVars, romVars, dpVars >>

\* samd_flash_write(f, dest, src, len) up to its poll: the page buffer is
\* written (the NVMC takes ADDRESS from it), then UNLOCK, then WRITEPAGE.
FlashWriteCall(dest, len, err) ==
    /\ s_pc = "idle"
    /\ s_op' = "write"
    /\ s_req' = << dest, len >>
    /\ s_addr' = dest
    /\ s_len' = len
    /\ LET hw == (dest + len - 1) \div 2
           unlocked == NvmcLocked(UnlockWord, hw, region_locked)
       IN  /\ nvmc_address' = hw
           /\ region_locked' = unlocked
           /\ row_erased' = NvmcErased(WritePageWord, hw, row_erased, unlocked)
    /\ nvmc_log' = nvmc_log \o << NvmcAccess("CTRLA", UnlockWord),
                                   NvmcAccess("CTRLA", WritePageWord) >>
    /\ adi_error' = (adi_error \/ err)
    /\ ready_seen' = FALSE
    /\ UNCHANGED error_at_ready
    /\ s_pc' = "write_poll"
    /\ UNCHANGED << s_ret, me_elapsed, me_ticks, me_status >>
    /\ UNCHANGED << s_spin, user_row, ur_saved, poll_error, p_did, p_samd >>
    /\ UNCHANGED tc_out
    /\ UNCHANGED << probeVars, haltVars, memVars, romVars, dpVars >>

\* One poll of INTFLAG in samd_flash_write.
FlashWritePoll(ready, err) ==
    /\ s_pc = "write_poll"
    /\ ready_seen' = ready
    /\ error_at_ready' = IF ready THEN (adi_error \/ err) ELSE error_at_ready
    /\ IF ready
       THEN /\ region_locked' = NvmcLocked(LockWord, nvmc_address, region_locked)
            /\ nvmc_log' = nvmc_log \o << ReadyRead, NvmcAccess("CTRLA", LockWord) >>
            /\ adi_error' = (adi_error \/ err)
            /\ s_ret' = 0
            /\ s_pc' = "done"
       ELSE /\ IF adi_error \/ err
               THEN s_ret' = -1 /\ s_pc' = "done"
               ELSE UNCHANGED << s_ret, s_pc >>
            /\ adi_error' = FALSE
            /\ UNCHANGED << region_locked, nvmc_log >>
    /\ UNCHANGED << s_op, s_req, s_addr, s_len, nvmc_address, row_erased, me_elapsed,
                    me_ticks, me_status >>
    /\ s_spin' = 1 - s_spin
    /\ UNCHANGED << user_row, ur_saved, poll_error, p_did, p_samd >>
    /\ UNCHANGED tc_out
    /\ UNCHANGED << probeVars, haltVars, memVars, romVars, dpVars >>

\* target_print_progress(&timeout): when the timeout has expired a progress
\* tick is printed and the timeout is armed again. The result is
\* << ms since the timeout was armed, ticks printed >>.
target_print_progress(elapsed, ticks) ==
    IF platform_timeout_is_expired(elapsed, MassEraseTimeout)
    THEN << 0, ticks + 1 >>
    ELSE << elapsed, ticks >>

\* samd_mass_erase(t) up to its poll: the status bits are cleared, CHIP_ERASE
\* is written and the 500 ms timeout is armed.
MassEraseCall(err) ==
    /\ s_pc = "idle"
    /\ s_op' = "mass_erase"
    /\ s_req' = << 0, 0 >>
    /\ me_elapsed' = 0
    /\ me_ticks' = 0
    /\ me_status' = {}
    /\ adi_error' = (adi_error \/ err)
    /\ s_pc' = "me_poll"
    /\ UNCHANGED << s_addr, s_len, s_ret, nvmc_address, row_erased, region_locked,
                    nvmc_log, ready_seen, error_at_ready >>
    /\ UNCHANGED << s_spin, user_row, ur_saved, poll_error, p_did, p_samd >>
    /\ UNCHANGED tc_out
    /\ UNCHANGED << probeVars, haltVars, memVars, romVars, dpVars >>

\* What samd_mass_erase returns and prints once the poll has ended with the
\* status bits status: PERR is tested first, then FAIL; all three ways return
\* true.
MassEraseResult_FalseOnFault(status) ==
    IF "PERR" \in status
    THEN [ret |-> 0, out |-> << "Erase failed due to a protection error." >>]
    ELSE IF "FAIL" \in status
         THEN [ret |-> 0, out |-> << "Erase failed." >>]
         ELSE [ret |-> 1, out |-> << >>]
MassEraseResult(status) ==
    IF "PERR" \in status
    THEN [ret |-> 1, out |-> << "Erase failed due to a protection error." >>]
    ELSE IF "FAIL" \in status
         THEN [ret |-> 1, out |-> << "Erase failed." >>]
         ELSE [ret |-> 1, out |-> << >>]

\* One poll of DSU CTRLSTAT in samd_mass_erase: the status bits read are
\* status, dt ms pass. With a status bit set the loop ends and the function
\* returns true; else target_check_error decides, and target_print_progress
\* is called.
MassErasePoll(status, err, dt) ==
    /\ s_pc = "me_poll"
    /\ me_ticks < MaxTicks
    /\ me_status' = status
    /\ IF status # {}
       THEN /\ s_ret' = MassEraseResult(status).ret
            /\ tc_out' = tc_out \o MassEraseResult(status).out
            /\ s_pc' = "done"
            /\ row_erased' = IF "DONE" \in status THEN Rows ELSE row_erased
            /\ adi_error' = (adi_error \/ err)
            /\ UNCHANGED << me_elapsed, me_ticks, poll_error >>
       ELSE /\ adi_error' = FALSE
            /\ UNCHANGED << row_erased, tc_out >>
            /\ IF adi_error \/ err
               THEN /\ s_ret' = 0
                    /\ s_pc' = "done"
                    /\ poll_error' = TRUE
                    /\ UNCHANGED << me_elapsed, me_ticks >>
               ELSE /\ UNCHANGED << s_ret, s_pc, poll_error >>
                    /\ LET p == target_print_progress(me_elapsed + dt, me_ticks) IN
                       me_elapsed' = p[1] /\ me_ticks' = p[2]
    /\ UNCHANGED << s_op, s_req, s_addr, s_len, nvmc_address, region_locked, nvmc_log,
                    ready_seen, error_at_ready >>
    /\ UNCHANGED << s_spin, user_row, ur_saved, p_did, p_samd >>
    /\ UNCHANGED << probeVars, haltVars, memVars, romVars, dpVars >>

InitSamd ==
    /\ s_pc = "idle" /\ s_op = "none" /\ s_addr = 0 /\ s_len = 0 /\ s_req = << 0, 0 >>
    /\ s_ret = 0 /\ nvmc_address = 0
    /\ row_erased = {}
    /\ region_locked \in { {}, Rows }
    /\ nvmc_log = << >>
    /\ adi_error = FALSE
    /\ ready_seen = FALSE /\ error_at_ready = FALSE /\ s_spin = 0
    /\ me_elapsed = 0 /\ me_ticks = 0 /\ me_status = {}
    /\ user_row = UserRowErased /\ SamdQuiet
    /\ HaltIdle /\ MemIdle /\ RomIdle /\ DpIdle

NextSamd ==
    \/ \E r \in Rows : \E len \in EraseLens(r * SAMD_ROW_SIZE) :
          FlashEraseCall(FlashStart + r * SAMD_ROW_SIZE, len)
    \/ FlashEraseReturn
    \/ \E err \in BOOLEAN : FlashEraseRow(err)
    \/ \E ready \in BOOLEAN, err \in BOOLEAN : FlashErasePoll(ready, err)
    \/ \E p \in 0 .. (FlashRows * (SAMD_ROW_SIZE \div SAMD_PAGE_SIZE) - 1) :
          \E len \in { 4, SAMD_PAGE_SIZE }, err \in BOOLEAN :
             FlashWriteCall(FlashStart + p * SAMD_PAGE_SIZE, len, err)
    \/ \E ready \in BOOLEAN, err \in BOOLEAN : FlashWritePoll(ready, err)
    \/ \E err \in BOOLEAN : MassEraseCall(err)
    \/ \E status \in SUBSET SAMD_STATUSA_BITS, err \in BOOLEAN, dt \in DtChoices :
          MassErasePoll(status, err, dt)

SpecSamd == InitSamd /\ [][NextSamd]_vars

\* The probe keeps running: a step of the driver that can be taken is taken.
SpecSamdFair == SpecSamd /\ WF_vars(NextSamd)

\* C2 as stated: once the 500 ms timeout of samd_mass_erase has been seen
\* expired, the polling loop has ended (no DONE, PERR or FAIL was read and no
\* ADI error was latched, or the loop would have ended before).
C2_MassEraseEndsAtTimeout ==
    (s_op = "mass_erase" /\ me_ticks > 0) => s_pc = "done"

\* C3 as stated: samd_flash_erase and samd_flash_write return 0 only when
\* READY was read as 1 with no ADI sticky error latched at that moment.
C3_SuccessOnlyWithoutError ==
    (s_op \in { "erase", "write" } /\ s_pc = "done" /\ s_ret = 0 /\ s_req[2] > 0) =>
        (ready_seen /\ ~error_at_ready)

\* C4: after samd_flash_erase(f, a, n) returned 0 for a block-aligned range
\* inside the Flash region, every byte of [a, a + n) reads 0xFF: every row
\* that holds a byte of the range is erased.
C4_ErasedAfterErase ==
    (s_op = "erase" /\ s_pc = "done" /\ s_ret = 0) =>
        RowsOfRange(s_req[1], s_req[2]) \subseteq row_erased

\* C4 witness: an erase of more than one row, not starting at the first row,
\* returned 0.
C4_Witness ==
    /\ s_op = "erase" /\ s_pc = "done" /\ s_ret = 0
    /\ s_req[1] > FlashStart
    /\ s_req[2] > SAMD_ROW_SIZE

(***************************************************************************)
(*                 samd_set_flashlock and samd_set_bootprot                *)
(***************************************************************************)

SAMD_CTRLA_CMD_ERASEAUXROW == 5
SAMD_CTRLA_CMD_WRITEAUXPAGE == 6
SAMD_NVM_USER_ROW_LOW == 8404992

EraseAuxRowWord == SAMD_CTRLA_CMD_KEY + SAMD_CTRLA_CMD_ERASEAUXROW
WriteAuxPageWord == SAMD_CTRLA_CMD_KEY + SAMD_CTRLA_CMD_WRITEAUXPAGE

\* The conversion of a return value to the bool the function is declared to
\* return: 0 stays 0 (false), every other value becomes 1 (true).
ToBool(x) == IF x = 0 THEN 0 ELSE 1

\* The user rows a call may find, and the values (uint16_t) it is given
UserRows ==
    [ low : { << 65535, 65535 >>, << 4660, 43978 >> },
      high : { << 65535, 65535 >>, << 0, 23130 >> } ]
UserRowValues == { 0, 7, 8, 65535 }

\* The user row the call writes back. samd_set_flashlock:
\* high = (high & 0x0000FFFF) | ((value << 16) & 0xFFFF0000);
\* samd_set_bootprot: low = (low & 0xFFFFFFF8) | ((value << 0) & 0x00000007).
UserRowModified_WholeWord(f, row, value) ==
    IF f = "set_flashlock"
    THEN [row EXCEPT !.high = << value % 65536, 0 >>]
    ELSE [row EXCEPT !.low = << 0, value % 8 >>]
UserRowModified(f, row, value) ==
    IF f = "set_flashlock"
    THEN [row EXCEPT !.high = << value % 65536, @[2] >>]
    ELSE [row EXCEPT !.low = << @[1], (@[2] - (@[2] % 8)) + (value % 8) >>]

\* The reads of the user row at the start of a call, and the writes of its
\* two words after the poll, as the log keeps them.
UserRowReads == << NvmcAccess("READ_USER_ROW_HIGH", 0), NvmcAccess("READ_USER_ROW_LOW", 0) >>
UserRowWrites == << NvmcAccess("WRITE_USER_ROW_LOW", 0), NvmcAccess("WRITE_USER_ROW_HIGH", 0) >>

\* samd_set_flashlock(t, value, argv) or samd_set_bootprot(t, value, argv) up
\* to the poll: the user row is read, ADDRESS is written and ERASEAUXROW is
\* issued, which erases the row.
UserRowCall(f, value, err) ==
    /\ s_pc = "idle"
    /\ s_op' = f
    /\ s_req' = << value, 0 >>
    /\ ur_saved' = user_row
    /\ nvmc_address' = EraseAddressValue(SAMD_NVM_USER_ROW_LOW)
    /\ nvmc_log' = nvmc_log \o UserRowReads \o
          << NvmcAccess("ADDRESS", EraseAddressValue(SAMD_NVM_USER_ROW_LOW)),
             NvmcAccess("CTRLA", EraseAuxRowWord) >>
    /\ user_row' = UserRowErased
    /\ adi_error' = (adi_error \/ err)
    /\ poll_error' = FALSE
    /\ s_pc' = "row_poll"
    /\ UNCHANGED << s_addr, s_len, s_ret, row_erased, region_locked, ready_seen,
                    error_at_ready, s_spin, me_elapsed, me_ticks, me_status, p_did,
                    p_samd >>
    /\ UNCHANGED tc_out
    /\ UNCHANGED << probeVars, haltVars, memVars, romVars, dpVars >>

\* One poll of INTFLAG in samd_set_flashlock / samd_set_bootprot: when READY
\* reads 0, target_check_error decides ("return -1"); when it reads 1, the
\* modified row is written back, WRITEAUXPAGE is issued and true is returned.
UserRowPoll(ready, err) ==
    /\ s_pc = "row_poll"
    /\ ready_seen' = ready
    /\ IF ready
       THEN /\ user_row' = UserRowModified(s_op, ur_saved, s_req[1])
            /\ nvmc_log' = nvmc_log \o << ReadyRead >> \o UserRowWrites
                              \o << NvmcAccess("CTRLA", WriteAuxPageWord) >>
            /\ adi_error' = (adi_error \/ err)
            /\ s_ret' = ToBool(1)
            /\ s_pc' = "done"
            /\ UNCHANGED poll_error
       ELSE /\ IF adi_error \/ err
               THEN s_ret' = ToBool(-1) /\ s_pc' = "done" /\ poll_error' = TRUE
               ELSE UNCHANGED << s_ret, s_pc, poll_error >>
            /\ adi_error' = FALSE
            /\ UNCHANGED << user_row, nvmc_log >>
    /\ s_spin' = 1 - s_spin
    /\ UNCHANGED << s_op, s_req, s_addr, s_len, nvmc_address, row_erased, region_locked,
                    error_at_ready, me_elapsed, me_ticks, me_status, ur_saved, p_did,
                    p_samd >>
    /\ UNCHANGED tc_out
    /\ UNCHANGED << probeVars, haltVars, memVars, romVars, dpVars >>

InitUserRow ==
    /\ s_pc = "idle" /\ s_op = "none" /\ s_addr = 0 /\ s_len = 0 /\ s_req = << 0, 0 >>
    /\ s_ret = 0 /\ nvmc_address = 0
    /\ row_erased = {} /\ region_locked = {}
    /\ nvmc_log = << >>
    /\ adi_error = FALSE
    /\ ready_seen = FALSE /\ error_at_ready = FALSE /\ s_spin = 0
    /\ me_elapsed = 0 /\ me_ticks = 0 /\ me_status = {}
    /\ user_row \in UserRows /\ SamdQuiet
    /\ HaltIdle /\ MemIdle /\ RomIdle /\ DpIdle

NextUserRow ==
    \/ \E f \in { "set_flashlock", "set_bootprot" }, value \in UserRowValues,
          err \in BOOLEAN : UserRowCall(f, value, err)
    \/ \E ready \in BOOLEAN, err \in BOOLEAN : UserRowPoll(ready, err)

SpecUserRow == InitUserRow /\ [][NextUserRow]_vars

(***************************************************************************)
(*                          samd_parse_device_id                           *)
(***************************************************************************)

\* The fields of the Device Identification Register (DID)
SAMD_DID_CONST_VALUE == 268435456
SAMD_DID_DEVSEL_MASK == 255
SAMD_DID_DEVSEL_POS == 0
SAMD_DID_REVISION_MASK == 15
SAMD_DID_REVISION_POS == 8
SAMD_DID_SERIES_MASK == 31
SAMD_DID_SERIES_POS == 16
SAMD_DID_FAMILY_MASK == 63
SAMD_DID_FAMILY_POS == 23

\* (did >> pos) & mask, for a mask of the form 2^k - 1
DidField(did, pos, mask) == (did \div (2 ^ pos)) % (mask + 1)

\* The part tables, without the { 0xFF, 0, 0, 0 } entry that ends each: the
\* search below stops in front of it.
samd_d21_parts ==
    << [devsel |-> 0, pin |-> "J", mem |-> 18, variant |-> "A"],
       [devsel |-> 1, pin |-> "J", mem |-> 17, variant |-> "A"],
       [devsel |-> 2, pin |-> "J", mem |-> 16, variant |-> "A"],
       [devsel |-> 3, pin |-> "J", mem |-> 15, variant |-> "A"],
       [devsel |-> 5, pin |-> "G", mem |-> 18, variant |-> "A"],
       [devsel |-> 6, pin |-> "G", mem |-> 17, variant |-> "A"],
       [devsel |-> 7, pin |-> "G", mem |-> 16, variant |-> "A"],
       [devsel |-> 8, pin |-> "G", mem |-> 15, variant |-> "A"],
       [devsel |-> 10, pin |-> "E", mem |-> 18, variant |-> "A"],
       [devsel |-> 11, pin |-> "E", mem |-> 17, variant |-> "A"],
       [devsel |-> 12, pin |-> "E", mem |-> 16, variant |-> "A"],
       [devsel |-> 13, pin |-> "E", mem |-> 15, variant |-> "A"],
       [devsel |-> 15, pin |-> "G", mem |-> 18, variant |-> "A"],
       [devsel |-> 16, pin |-> "G", mem |-> 17, variant |-> "A"],
       [devsel |-> 32, pin |-> "J", mem |-> 16, variant |-> "B"],
       [devsel |-> 33, pin |-> "J", mem |-> 15, variant |-> "B"],
       [devsel |-> 35, pin |-> "G", mem |-> 16, variant |-> "B"],
       [devsel |-> 36, pin |-> "G", mem |-> 15, variant |-> "B"],
       [devsel |-> 38, pin |-> "E", mem |-> 16, variant |-> "B"],
       [devsel |-> 39, pin |-> "E", mem |-> 15, variant |-> "B"],
       [devsel |-> 85, pin |-> "E", mem |-> 16, variant |-> "B"],
       [devsel |-> 86, pin |-> "E", mem |-> 15, variant |-> "B"],
       [devsel |-> 98, pin |-> "E", mem |-> 16, variant |-> "C"],
       [devsel |-> 99, pin |-> "E", mem |-> 15, variant |-> "C"] >>

samd_l21_parts ==
    << [devsel |-> 0, pin |-> "J", mem |-> 18, variant |-> "A"],
       [devsel |-> 1, pin |-> "J", mem |-> 17, variant |-> "A"],
       [devsel |-> 2, pin |-> "J", mem |-> 16, variant |-> "A"],
       [devsel |-> 5, pin |-> "G", mem |-> 18, variant |-> "A"],
       [devsel |-> 6, pin |-> "G", mem |-> 17, variant |-> "A"],
       [devsel |-> 7, pin |-> "G", mem |-> 16, variant |-> "A"],
       [devsel |-> 10, pin |-> "E", mem |-> 18, variant |-> "A"],
       [devsel |-> 11, pin |-> "E", mem |-> 17, variant |-> "A"],
       [devsel |-> 12, pin |-> "E", mem |-> 16, variant |-> "A"],
       [devsel |-> 13, pin |-> "E", mem |-> 15, variant |-> "A"],
       [devsel |-> 15, pin |-> "J", mem |-> 18, variant |-> "B"],
       [devsel |-> 16, pin |-> "J", mem |-> 17, variant |-> "B"],
       [devsel |-> 17, pin |-> "J", mem |-> 16, variant |-> "B"],
       [devsel |-> 20, pin |-> "G", mem |-> 18, variant |-> "B"],
       [devsel |-> 21, pin |-> "G", mem |-> 17, variant |-> "B"],
       [devsel |-> 22, pin |-> "G", mem |-> 16, variant |-> "B"],
       [devsel |-> 25, pin |-> "E", mem |-> 18, variant |-> "B"],
       [devsel |-> 26, pin |-> "E", mem |-> 17, variant |-> "B"],
       [devsel |-> 27, pin |-> "E", mem |-> 16, variant |-> "B"],
       [devsel |-> 28, pin |-> "E", mem |-> 15, variant |-> "B"] >>

samd_l22_parts ==
    << [devsel |-> 0, pin |-> "N", mem |-> 18, variant |-> "A"],
       [devsel |-> 1, pin |-> "N", mem |-> 17, variant |-> "A"],
       [devsel |-> 2, pin |-> "N", mem |-> 16, variant |-> "A"],
       [devsel |-> 5, pin |-> "J", mem |-> 18, variant |-> "A"],
       [devsel |-> 6, pin |-> "J", mem |-> 17, variant |-> "A"],
       [devsel |-> 7, pin |-> "J", mem |-> 16, variant |-> "A"],
       [devsel |-> 10, pin |-> "G", mem |-> 18, variant |-> "A"],
       [devsel |-> 11, pin |-> "G", mem |-> 17, variant |-> "A"],
       [devsel |-> 12, pin |-> "G", mem |-> 16, variant |-> "A"] >>

\* The search of samd_parse_device_id in a part table: the first entry whose
\* devsel is the one looked for, as a sequence of at most one entry.
PartLookup(parts, devsel) ==
    LET hits == { i \in 1 .. Len(parts) : parts[i].devsel = devsel } IN
    IF hits = {} THEN << >>
    ELSE << parts[CHOOSE i \in hits : \A j \in hits : i <= j] >>

\* (char)('A' + revision)
RevisionLetters ==
    << "A", "B", "C", "D", "E", "F", "G", "H", "I", "J", "K", "L", "M", "N", "O", "P" >>

\* What the members of struct samd_descr that samd_parse_device_id does not
\* set may hold when it returns: they are never initialised.
Indeterminate == [family : { "D", "?" }, pin : { "J", "?" }, mem : { 18, 0 },
                  variant : { "A", "?" }]

\* samd_parse_device_id(did); stack is what the uninitialised members hold
samd_parse_device_id(did, stack) ==
    LET family == DidField(did, SAMD_DID_FAMILY_POS, SAMD_DID_FAMILY_MASK)
        series == DidField(did, SAMD_DID_SERIES_POS, SAMD_DID_SERIES_MASK)
        revision == DidField(did, SAMD_DID_REVISION_POS, SAMD_DID_REVISION_MASK)
        devsel == DidField(did, SAMD_DID_DEVSEL_POS, SAMD_DID_DEVSEL_MASK)
        letter == CASE family = 0 -> "D"
                    [] family = 1 -> "L"
                    [] family = 2 -> "C"
                    [] OTHER -> stack.family
        number == CASE series = 0 -> 20
                    [] series = 1 -> 21
                    [] series = 2 -> IF family = 1 THEN 22 ELSE 10
                    [] series = 3 -> 11
                    [] series = 4 -> 9
                    [] OTHER -> 0
        parts == IF family = 1
                 THEN IF series = 2 THEN samd_l22_parts ELSE samd_l21_parts
                 ELSE samd_d21_parts
        samd == [family |-> letter, series |-> number,
                 revision |-> RevisionLetters[revision + 1], pin |-> stack.pin,
                 ram_size |-> 32768, flash_size |-> 262144, mem |-> stack.mem,
                 variant |-> stack.variant, package |-> ""]
    IN  CASE number = 20 ->
               [samd EXCEPT !.pin = CASE devsel \div 5 = 0 -> "J"
                                      [] devsel \div 5 = 1 -> "G"
                                      [] devsel \div 5 = 2 -> "E"
                                      [] OTHER -> "u",
                            !.mem = (18 - (devsel % 5)) % 256,
                            !.variant = "A"]
          [] number \in { 21, 22 } ->
               LET hit == PartLookup(parts, devsel) IN
               IF hit = << >> THEN samd
               ELSE [samd EXCEPT !.pin = hit[1].pin, !.mem = hit[1].mem,
                                 !.variant = hit[1].variant]
          [] number \in { 10, 11 } ->
               [samd EXCEPT !.package = CASE devsel \div 3 = 0 -> "M"
                                          [] devsel \div 3 = 1 -> "SS"
                                          [] OTHER -> "",
                            !.pin = "D",
                            !.mem = (14 - (devsel % 3)) % 256,
                            !.variant = "A"]
          [] number = 9 ->
               CASE devsel = 0 ->
                      [samd EXCEPT !.ram_size = 4096, !.pin = "D", !.mem = 14,
                                   !.flash_size = 16384, !.package = "M",
                                   !.variant = "A"]
                 [] devsel = 7 ->
                      [samd EXCEPT !.ram_size = 4096, !.pin = "C", !.mem = 13,
                                   !.flash_size = 8192, !.variant = "A"]
                 [] OTHER -> [samd EXCEPT !.ram_size = 4096, !.variant = "A"]
          [] OTHER -> samd

\* The DIDs parsed: with or without the constant bit the probe asks for, and
\* the four fields up to the bounds.
DidWords ==
    { c + (f * (2 ^ SAMD_DID_FAMILY_POS)) + (s * (2 ^ SAMD_DID_SERIES_POS))
        + (r * (2 ^ SAMD_DID_REVISION_POS)) + (d * (2 ^ SAMD_DID_DEVSEL_POS)) :
        c \in { 0, SAMD_DID_CONST_VALUE }, f \in 0 .. MaxFamily, s \in 0 .. MaxSeries,
        r \in 0 .. MaxRevision, d \in 0 .. MaxDevsel }

\* samd_parse_device_id(did) is called and returns.
ParseDeviceId(did, stack) ==
    /\ s_pc = "idle"
    /\ s_op' = "parse"
    /\ p_did' = did
    /\ p_samd' = samd_parse_device_id(did, stack)
    /\ s_pc' = "done"
    /\ UNCHANGED << s_addr, s_len, s_req, s_ret, nvmc_address, row_erased, region_locked,
                    nvmc_log, adi_error, ready_seen, error_at_ready, s_spin, me_elapsed,
                    me_ticks, me_status, user_row, ur_saved, poll_error >>
    /\ UNCHANGED tc_out
    /\ UNCHANGED << probeVars, haltVars, memVars, romVars, dpVars >>

InitDid == InitSamd

NextDid == \E did \in DidWords, stack \in Indeterminate : ParseDeviceId(did, stack)

SpecDid == InitDid /\ [][NextDid]_vars

\* The four fields of a DID that samd_parse_device_id reads
DidFields(did) ==
    << DidField(did, SAMD_DID_FAMILY_POS, SAMD_DID_FAMILY_MASK),
       DidField(did, SAMD_DID_SERIES_POS, SAMD_DID_SERIES_MASK),
       DidField(did, SAMD_DID_REVISION_POS, SAMD_DID_REVISION_MASK),
       DidField(did, SAMD_DID_DEVSEL_POS, SAMD_DID_DEVSEL_MASK) >>

\* A recognised part: every switch of samd_parse_device_id takes a case that
\* names it, and the table search finds it.
Recognised(did) ==
    LET f == DidFields(did)
        number == samd_parse_device_id(did, CHOOSE stack \in Indeterminate : TRUE).series
    IN  /\ f[1] \in { 0, 1, 2 }
        /\ CASE number = 20 -> f[4] \div 5 <= 2
             [] number = 21 -> PartLookup(IF f[1] = 1 THEN samd_l21_parts
                                          ELSE samd_d21_parts, f[4]) # << >>
             [] number = 22 -> PartLookup(samd_l22_parts, f[4]) # << >>
             [] number \in { 10, 11 } -> f[4] \div 3 <= 1
             [] number = 9 -> f[4] \in { 0, 7 }
             [] OTHER -> FALSE

\* The descriptor of a recognised part: no member is left unset for it.
Decoded(did) == samd_parse_device_id(did, CHOOSE stack \in Indeterminate : TRUE)

\* What the claim calls the descriptor: family letter, series number, pin,
\* mem, variant, package and revision.
Descriptor(samd) ==
    << samd.family, samd.series, samd.pin, samd.mem, samd.variant, samd.package,
       samd.revision >>

(***************************************************************************)
(*                                samd_probe                               *)
(***************************************************************************)

SamdRamStart == 536870912

\* (did & SAMD_DID_MASK) == SAMD_DID_CONST_VALUE, the mask being 0xFF380000:
\* bits 31..24 read 0x10 and bits 21..19 read 0.
DidMatches(did) == (did \div (2 ^ 24)) % 256 = 16 /\ (did \div (2 ^ 19)) % 8 = 0

\* The DIDs samd_probe reads: those of DidWords with devsel 0 and bits 23 to
\* 27 clear
ProbeDids ==
    { did \in DidWords :
         /\ DidField(did, SAMD_DID_DEVSEL_POS, SAMD_DID_DEVSEL_MASK) = 0
         /\ DidField(did, SAMD_DID_FAMILY_POS, SAMD_DID_FAMILY_MASK) % 32 = 0 }

\* t->slot = fn
SetHook(hooks, slot, fn) == { h \in hooks : h[1] # slot } \cup { << slot, fn >> }

\* samd_add_flash(t, addr, length): when calloc fails it only warns and
\* returns, nothing is added and the caller is not told.
samd_add_flash(t, addr, length, calloc_ok) ==
    IF ~calloc_ok THEN t
    ELSE [t EXCEPT !.flash = Append(@, [start |-> addr, length |-> length,
                                        blocksize |-> SAMD_ROW_SIZE,
                                        buf_size |-> SAMD_PAGE_SIZE])]

\* samd_probe(t) from the assignment of t->mass_erase on, for a target whose
\* CID, PID and DID match. priv_ok and flash_ok are the results of the two
\* calloc calls; stack is what samd_parse_device_id leaves unset.
SamdSetup(t, did, priv_ok, flash_ok, protected, nrst, crstext, stack) ==
    LET samd == samd_parse_device_id(did, stack)
        t1 == [t EXCEPT !.hooks = SetHook(@, "mass_erase", "samd_mass_erase"),
                        !.target_storage = IF priv_ok THEN "priv_storage" ELSE "NULL"]
        t2 == [t1 EXCEPT !.driver = << [samd |-> Descriptor(samd), prot |-> protected] >>,
                         !.hooks = SetHook(@, "reset", "samd_reset")]
        t3 == IF samd.series = 20 /\ samd.revision = "B"
              THEN [t2 EXCEPT !.hooks = SetHook(SetHook(@, "detach", "samd20_revB_detach"),
                                                "halt_resume", "samd20_revB_halt_resume")]
              ELSE IF samd.series = 11
                   THEN [t2 EXCEPT !.hooks = SetHook(@, "attach", "samd11_attach")]
                   ELSE t2
        t4 == IF protected
              THEN [t3 EXCEPT !.hooks = SetHook(@, "attach", "samd_protected_attach")]
              ELSE t3
        t5 == [t4 EXCEPT !.ram = Append(@, << SamdRamStart, samd.ram_size >>)]
        t6 == samd_add_flash(t5, 0, samd.flash_size, flash_ok)
        t7 == [t6 EXCEPT !.commands = Append(@, "SAMD")]
    IN  IF ~nrst /\ crstext THEN [t7 EXCEPT !.crstext_cleared = TRUE] ELSE t7

\* samd_probe(t) is called and returns, or faults. ids_ok: CID and PID match.
\* When the calloc of the private storage fails, sprintf writes through the
\* null pointer: the probe faults there (faults) or runs on.
SamdProbe(ids_ok, did, priv_ok, flash_ok, protected, nrst, crstext, stack, faults) ==
    /\ s_pc = "idle"
    /\ s_op' = "probe"
    /\ IF ~ids_ok \/ ~DidMatches(did)
       THEN /\ s_ret' = 0
            /\ s_pc' = "done"
            /\ UNCHANGED << tgt, calloc_failed >>
       ELSE /\ calloc_failed' = (~priv_ok \/ ~flash_ok)
            /\ IF ~priv_ok /\ faults
               THEN /\ tgt' = [tgt EXCEPT
                                 !.hooks = SetHook(@, "mass_erase", "samd_mass_erase"),
                                 !.target_storage = "NULL"]
                    /\ s_pc' = "fault"
                    /\ UNCHANGED s_ret
               ELSE /\ tgt' = SamdSetup(tgt, did, priv_ok, flash_ok, protected, nrst,
                                        crstext, stack)
                    /\ s_ret' = 1
                    /\ s_pc' = "done"
    /\ UNCHANGED << s_addr, s_len, s_req, nvmc_address, row_erased, region_locked,
                    nvmc_log, adi_error, ready_seen, error_at_ready, s_spin, me_elapsed,
                    me_ticks, me_status, user_row, ur_saved, poll_error, tc_out, p_did,
                    p_samd, a_log, hr_depth, hr_ops >>
    /\ UNCHANGED << haltVars, memVars, romVars, dpVars >>

InitProbe == InitSamd

NextProbe ==
    \E ids_ok \in BOOLEAN, did \in ProbeDids, priv_ok \in BOOLEAN, flash_ok \in BOOLEAN,
       protected \in BOOLEAN, nrst \in BOOLEAN, crstext \in BOOLEAN,
       stack \in Indeterminate, faults \in BOOLEAN :
          SamdProbe(ids_ok, did, priv_ok, flash_ok, protected, nrst, crstext, stack, faults)

SpecProbe == InitProbe /\ [][NextProbe]_vars

(***************************************************************************)
(*              the attach and halt_resume hooks samd_probe sets           *)
(***************************************************************************)

\* The calls of t->attach and the nesting of t->halt_resume are followed to
MaxAttach == 3
MaxNest == 3

\* t->slot, generic being what cortexm_probe set before samd_probe ran.
HookOf(hooks, slot, generic) ==
    IF \E h \in hooks : h[1] = slot
    THEN (CHOOSE h \in hooks : h[1] = slot)[2]
    ELSE generic

\* Exit extended reset: DSU CTRLSTAT is read and, with CRSTEXT set, the bit
\* is written to clear it.
ExitExtendedReset(crstext) ==
    << "read_ctrlstat" >> \o (IF crstext THEN << "clear_crstext" >> ELSE << >>)

\* samd_protected_attach(t): the message, t->attach = cortexm_attach, true.
samd_protected_attach_Stays ==
    [ ops |-> << "tc_printf" >>, attach |-> "samd_protected_attach", ret |-> "true" ]
samd_protected_attach ==
    [ ops |-> << "tc_printf" >>, attach |-> "cortexm_attach", ret |-> "true" ]

\* samd11_attach(t): exit extended reset, return cortexm_attach(t).
samd11_attach(crstext) ==
    [ ops |-> ExitExtendedReset(crstext) \o << "cortexm_attach" >>,
      attach |-> "samd11_attach", ret |-> "cortexm_attach" ]

\* cortexm_attach(t), the generic attach.
cortexm_attach ==
    [ ops |-> << "cortexm_attach" >>, attach |-> "cortexm_attach", ret |-> "cortexm_attach" ]

\* t->attach(t) for the hook installed.
AttachHook(hook, crstext) ==
    IF hook = "samd_protected_attach" THEN samd_protected_attach
    ELSE IF hook = "samd11_attach" THEN samd11_attach(crstext)
    ELSE cortexm_attach

\* target_halt_resume(t, step) calls t->halt_resume(t, step).
target_halt_resume(hooks) == HookOf(hooks, "halt_resume", "cortexm_halt_resume")

\* The probe returned true: the target is in the target list.
Probed == s_op = "probe" /\ s_pc = "done" /\ s_ret = 1

AttachFrame ==
    UNCHANGED << s_pc, s_op, s_addr, s_len, s_req, s_ret, nvmc_address, row_erased,
                 region_locked, nvmc_log, adi_error, ready_seen, error_at_ready, s_spin,
                 me_elapsed, me_ticks, me_status, user_row, ur_saved, poll_error, tc_out,
                 calloc_failed, p_did, p_samd >>

\* t->attach(t) is called, DSU CTRLSTAT reading with or without CRSTEXT.
TargetAttach(crstext) ==
    /\ Probed /\ hr_depth = 0 /\ hr_ops = << >>
    /\ Len(a_log) < MaxAttach
    /\ LET hook == HookOf(tgt.hooks, "attach", "cortexm_attach")
           run == AttachHook(hook, crstext)
       IN /\ a_log' = Append(a_log, [ hook |-> hook, crstext |-> crstext,
                                      ops |-> run.ops, ret |-> run.ret ])
          /\ tgt' = IF run.attach = hook THEN tgt
                    ELSE [tgt EXCEPT !.hooks = SetHook(@, "attach", run.attach)]
    /\ UNCHANGED << hr_depth, hr_ops >>
    /\ AttachFrame
    /\ UNCHANGED << haltVars, memVars, romVars, dpVars >>

\* target_halt_resume(t, step) is called from outside the driver.
TargetHaltResume ==
    /\ Probed /\ hr_depth = 0 /\ hr_ops = << >> /\ a_log = << >>
    /\ hr_depth' = 1
    /\ hr_ops' = << target_halt_resume(tgt.hooks) >>
    /\ UNCHANGED << tgt, a_log >>
    /\ AttachFrame
    /\ UNCHANGED << haltVars, memVars, romVars, dpVars >>

\* The hook entered last runs: samd20_revB_halt_resume starts with
\* target_halt_resume(t, step); the generic hook halts or resumes and
\* returns.
HaltResumeHook ==
    /\ hr_depth > 0
    /\ IF hr_ops[Len(hr_ops)] = "samd20_revB_halt_resume"
       THEN /\ hr_depth < MaxNest
            /\ hr_depth' = hr_depth + 1
            /\ hr_ops' = Append(hr_ops, target_halt_resume(tgt.hooks))
       ELSE /\ hr_depth' = hr_depth - 1
            /\ hr_ops' = Append(hr_ops, "return")
    /\ UNCHANGED << tgt, a_log >>
    /\ AttachFrame
    /\ UNCHANGED << haltVars, memVars, romVars, dpVars >>

InitHooks == InitSamd

\* samd_probe accepts the part: both calloc calls succeed, nRST is asserted.
NextHooks ==
    \/ \E did \in ProbeDids, protected \in BOOLEAN, stack \in Indeterminate :
          SamdProbe(TRUE, did, TRUE, TRUE, protected, TRUE, FALSE, stack, FALSE)
    \/ \E crstext \in BOOLEAN : TargetAttach(crstext)
    \/ TargetHaltResume
    \/ HaltResumeHook

SpecHooks == InitHooks /\ [][NextHooks]_vars

(***************************************************************************)
(*     firmware_mem_read, firmware_mem_write_sized and adiv5_mem_write     *)
(***************************************************************************)

\* enum align
ALIGN_BYTE == 0
ALIGN_HALFWORD == 1
ALIGN_WORD == 2

\* The TAR window: 0xfffffc00 masks the address bits above the low 10.
TarWindow == 1024

\* ALIGNOF(x)
ALIGNOF(x) == IF x % 4 = 0 THEN ALIGN_WORD
              ELSE IF x % 2 = 0 THEN ALIGN_HALFWORD ELSE ALIGN_BYTE

\* MIN(a, b)
MIN(a, b) == IF a < b THEN a ELSE b

\* 1 << align
Width(align) == 2 ^ align

\* The width both transfers choose: MIN(ALIGNOF(addr), ALIGNOF(len))
TransferAlign_OfAddress(addr, len) == ALIGNOF(addr)
TransferAlign(addr, len) == MIN(ALIGNOF(addr), ALIGNOF(len))

\* (new ^ old) & 0xfffffc00U
Crosses_Never(new, old) == FALSE
Crosses_AnyBit(new, old) == new # old
Crosses(new, old) == (new \div TarWindow) # (old \div TarWindow)

\* The target memory before the transfer, and now.
Pattern(a) == (a * 7 + m_seed * 13 + 1) % 256
Mem(a) == IF a \in DOMAIN m_written THEN m_written[a] ELSE Pattern(a)

\* The AP: the 32-bit word a read of 2^align bytes at address a returns. The
\* bytes read are on their byte lanes; the other lanes hold the rest of the bus
\* word or zero.
LanesOf(a, align) == { l \in 0 .. 3 : (a % 4) <= l /\ l < (a % 4) + Width(align) }
ApReadWord(a, align) ==
    [ l \in 0 .. 3 |->
        IF l \in LanesOf(a, align) \/ ap_fills THEN Mem(a - (a % 4) + l) ELSE 0 ]

\* The AP: TAR after an access of 2^align bytes (CSW.AddrInc = single).
ApIncrement(tar, align) ==
    IF ap_wraps
    THEN (tar \div TarWindow) * TarWindow + ((tar + Width(align)) % TarWindow)
    ELSE tar + Width(align)

\* The AP: the memory after a DRW write of word at TAR with 2^align bytes.
ApWriteMem(tar, align, word) ==
    [ a \in DOMAIN m_written \cup (tar .. (tar + Width(align) - 1)) |->
        IF tar <= a /\ a < tar + Width(align) THEN word[(tar % 4) + (a - tar)]
        ELSE m_written[a] ]

\* extract(dest, src, val, align): the bytes stored at dest
extract_HighFirst(src, val, align) ==
    IF align = ALIGN_BYTE THEN << val[src % 4] >>
    ELSE IF align = ALIGN_HALFWORD
         THEN << val[((src \div 2) % 2) * 2 + 1], val[((src \div 2) % 2) * 2] >>
         ELSE << val[3], val[2], val[1], val[0] >>
extract_LaneZero(src, val, align) ==
    IF align = ALIGN_BYTE THEN << val[0] >>
    ELSE IF align = ALIGN_HALFWORD THEN << val[0], val[1] >>
    ELSE << val[0], val[1], val[2], val[3] >>
extract(src, val, align) ==
    IF align = ALIGN_BYTE THEN << val[src % 4] >>
    ELSE IF align = ALIGN_HALFWORD
         THEN << val[((src \div 2) % 2) * 2], val[((src \div 2) % 2) * 2 + 1] >>
         ELSE << val[0], val[1], val[2], val[3] >>

\* The word firmware_mem_write_sized packs from the bytes at src[pos ..]
PackWord(dest, buf, pos, align) ==
    [ l \in 0 .. 3 |->
        IF align = ALIGN_BYTE
        THEN IF l = dest % 4 THEN buf[pos + 1] ELSE 0
        ELSE IF align = ALIGN_HALFWORD
             THEN IF l \div 2 = (dest \div 2) % 2 THEN buf[pos + 1 + (l % 2)] ELSE 0
             ELSE buf[pos + 1 + l] ]

\* One transaction, as the log keeps it: op, the address it carries (TAR
\* written, address whose data a read returns, address a DRW write stores to)
\* and, for a read, whether the code keeps the data.
Trans(op, a, keep) == [ op |-> op, a |-> a, keep |-> keep ]

\* ap_mem_access_setup(ap, addr, align): CSW, then TAR
SetupLog(addr, align) == << Trans("CSW", align, FALSE), Trans("TAR", addr, FALSE) >>

\* The addresses a transfer starts at, and the lengths it has there.
MemLo == TarWindow - MemSpan
MemHi == TarWindow + MemSpan
MemAddrs == MemLo .. (MemHi - 1)
MemLens(addr) == 0 .. MIN(MaxLen, MemHi - addr)

\* One long transfer, from the last word of a window over the whole next window
\* into the one after.
LongRequest == << TarWindow - 4, TarWindow + 8 >>
MemRequests == { << a, l >> : a \in MemAddrs, l \in 0 .. MaxLen } \cup { LongRequest }
ReadRequests == { r \in MemRequests : r = LongRequest \/ r[2] \in MemLens(r[1]) }

\* The bytes a caller hands to a write of len bytes
WriteData(len) == [ i \in 1 .. len |-> (i * 29 + 3) % 256 ]

\* firmware_mem_read(ap, dest, src, len) up to its loop: nothing happens for
\* len = 0, else the width is chosen, CSW and TAR are set up and the first DRW
\* read primes the pipeline.
MemReadCall(src, len) ==
    /\ m_pc = "idle"
    /\ m_mode' = "read"
    /\ m_req' = << src, len >>
    /\ m_src' = src
    /\ m_osrc' = src
    /\ m_align' = TransferAlign(src, len)
    /\ m_buf' = << >>
    /\ m_pos' = 0
    /\ IF len = 0
       THEN /\ m_pc' = "rd_done"
            /\ UNCHANGED << m_len, ap_posted, ap_tar, ap_log >>
       ELSE /\ m_len' = len \div Width(m_align')
            /\ ap_posted' = src
            /\ ap_tar' = ApIncrement(src, m_align')
            /\ ap_log' = SetupLog(src, m_align')
                            \o << Trans("DRW_R", ap_posted, FALSE) >>
            /\ m_pc' = "rd_loop"
    /\ UNCHANGED << m_written, m_seed, ap_wraps, ap_fills >>
    /\ UNCHANGED << haltVars, samdVars, romVars, dpVars >>

\* One iteration of while (--len): a DRW read whose data is extracted, and on
\* a 10-bit address overflow a TAR write and a DRW read whose data is dropped.
MemReadLoop ==
    /\ m_pc = "rd_loop"
    /\ m_len - 1 # 0
    /\ m_len' = m_len - 1
    /\ m_buf' = m_buf \o extract(m_src, ApReadWord(ap_posted, m_align), m_align)
    /\ m_src' = m_src + Width(m_align)
    /\ IF Crosses(m_src', m_osrc)
       THEN /\ m_osrc' = m_src'
            /\ ap_posted' = m_src'
            /\ ap_tar' = ApIncrement(m_src', m_align)
            /\ ap_log' = ap_log \o << Trans("DRW_R", ap_posted, TRUE),
                                      Trans("TAR", m_src', FALSE),
                                      Trans("DRW_R", ap_tar, FALSE) >>
       ELSE /\ UNCHANGED m_osrc
            /\ ap_posted' = ap_tar
            /\ ap_tar' = ApIncrement(ap_tar, m_align)
            /\ ap_log' = Append(ap_log, Trans("DRW_R", ap_posted, TRUE))
    /\ UNCHANGED << m_pc, m_mode, m_req, m_align, m_pos, m_written, m_seed, ap_wraps,
                    ap_fills >>
    /\ UNCHANGED << haltVars, samdVars, romVars, dpVars >>

\* The loop of firmware_mem_read is over: the last data is read from RDBUFF.
MemReadFinish ==
    /\ m_pc = "rd_loop"
    /\ m_len - 1 = 0
    /\ m_len' = 0
    /\ m_buf' = m_buf \o extract(m_src, ApReadWord(ap_posted, m_align), m_align)
    /\ ap_log' = Append(ap_log, Trans("RDBUFF", ap_posted, TRUE))
    /\ ap_posted' = -1
    /\ m_pc' = "rd_done"
    /\ UNCHANGED << m_mode, m_req, m_src, m_osrc, m_align, m_pos, m_written, m_seed,
                    ap_wraps, ap_fills, ap_tar >>
    /\ UNCHANGED << haltVars, samdVars, romVars, dpVars >>

\* adiv5_mem_write(ap, dest, src, len) with the bytes just read, at the
\* address they were read from: the width is chosen and
\* firmware_mem_write_sized runs up to its loop.
MemWriteBack ==
    /\ m_pc = "rd_done"
    /\ m_src' = m_req[1]
    /\ m_osrc' = m_req[1]
    /\ m_align' = TransferAlign(m_req[1], m_req[2])
    /\ m_len' = m_req[2] \div Width(m_align')
    /\ m_pos' = 0
    /\ ap_tar' = m_req[1]
    /\ ap_log' = ap_log \o SetupLog(m_req[1], m_align')
    /\ m_pc' = "wr_loop"
    /\ UNCHANGED << m_mode, m_req, m_buf, m_written, m_seed, ap_wraps, ap_fills,
                    ap_posted >>
    /\ UNCHANGED << haltVars, samdVars, romVars, dpVars >>

\* firmware_mem_write_sized(ap, dest, src, len, align) up to its loop.
MemWriteCall(dest, len, align) ==
    /\ m_pc = "idle"
    /\ m_mode' = "write"
    /\ m_req' = << dest, len >>
    /\ m_src' = dest
    /\ m_osrc' = dest
    /\ m_align' = align
    /\ m_len' = len \div Width(align)
    /\ m_buf' = WriteData(len)
    /\ m_pos' = 0
    /\ ap_tar' = dest
    /\ ap_log' = SetupLog(dest, align)
    /\ m_pc' = "wr_loop"
    /\ UNCHANGED << m_written, m_seed, ap_wraps, ap_fills, ap_posted >>
    /\ UNCHANGED << haltVars, samdVars, romVars, dpVars >>

\* One iteration of while (len--): a word is packed and written to DRW, and
\* on a 10-bit address overflow TAR is written.
MemWriteLoop ==
    /\ m_pc = "wr_loop"
    /\ m_len # 0
    /\ m_len' = m_len - 1
    /\ m_pos' = m_pos + Width(m_align)
    /\ m_src' = m_src + Width(m_align)
    /\ m_written' = ApWriteMem(ap_tar, m_align, PackWord(m_src, m_buf, m_pos, m_align))
    /\ IF Crosses(m_src', m_osrc)
       THEN /\ m_osrc' = m_src'
            /\ ap_tar' = m_src'
            /\ ap_log' = ap_log \o << Trans("DRW_W", ap_tar, FALSE),
                                      Trans("TAR", m_src', FALSE) >>
       ELSE /\ UNCHANGED m_osrc
            /\ ap_tar' = ApIncrement(ap_tar, m_align)
            /\ ap_log' = Append(ap_log, Trans("DRW_W", ap_tar, FALSE))
    /\ UNCHANGED << m_pc, m_mode, m_req, m_align, m_buf, m_seed, ap_wraps, ap_fills,
                    ap_posted >>
    /\ UNCHANGED << haltVars, samdVars, romVars, dpVars >>

\* The loop of firmware_mem_write_sized is over: the dummy read of RDBUFF.
MemWriteFinish ==
    /\ m_pc = "wr_loop"
    /\ m_len = 0
    /\ ap_log' = Append(ap_log, Trans("RDBUFF", -1, FALSE))
    /\ m_pc' = "wr_done"
    /\ UNCHANGED << m_mode, m_req, m_src, m_osrc, m_len, m_align, m_buf, m_pos,
                    m_written, m_seed, ap_wraps, ap_fills, ap_tar, ap_posted >>
    /\ UNCHANGED << haltVars, samdVars, romVars, dpVars >>

InitMem ==
    /\ m_pc = "idle" /\ m_mode = "none" /\ m_src = 0 /\ m_osrc = 0 /\ m_len = 0
    /\ m_align = 0 /\ m_req = << >> /\ m_buf = << >> /\ m_pos = 0
    /\ m_written = << >>
    /\ m_seed \in { 0, 1 }
    /\ ap_wraps \in BOOLEAN
    /\ ap_fills \in BOOLEAN
    /\ ap_tar = 0 /\ ap_posted = -1 /\ ap_log = << >>
    /\ HaltIdle /\ SamdIdle /\ RomIdle /\ DpIdle

NextMem ==
    \/ \E r \in ReadRequests : MemReadCall(r[1], r[2])
    \/ MemReadLoop
    \/ MemReadFinish
    \/ MemWriteBack
    \/ \E dest \in MemAddrs : \E len \in MemLens(dest) :
          \E align \in 0 .. TransferAlign(dest, len) : MemWriteCall(dest, len, align)
    \/ MemWriteLoop
    \/ MemWriteFinish

SpecMem == InitMem /\ [][NextMem]_vars

\* The transactions of kind op in the log, and how many 1 KiB boundaries
\* lie inside [a, a + n).
CountOp(op) == Cardinality({ k \in 1 .. Len(ap_log) : ap_log[k].op = op })
BoundariesIn(a, n) == ((a + n - 1) \div TarWindow) - (a \div TarWindow)
\* C5 (as stated): a transfer of L bytes at width W issues exactly L/W DRW
\* transactions, whether or not it crosses a 1 KiB boundary, and a read
\* issues exactly one trailing RDBUFF read besides.
C5_ExactlyLOverWTransactions ==
    /\ m_pc = "rd_done" =>
          /\ CountOp("DRW_R") = m_req[2] \div Width(m_align)
          /\ CountOp("RDBUFF") = 1
    /\ m_pc = "wr_done" => CountOp("DRW_W") = m_req[2] \div Width(m_align)

\* C5 (amended): a write of L bytes at width W issues exactly L/W DRW writes.
\* A read of L > 0 bytes takes its L/W data words from L/W - 1 DRW reads and
\* one trailing RDBUFF read, and issues besides one DRW read to prime the
\* pipeline and one more for every 1 KiB boundary it crosses: L/W DRW reads when
\* it stays in one window, L/W + k when it crosses k boundaries. A read of no
\* bytes issues no transaction, RDBUFF included.
C5_TransactionCounts ==
    /\ (m_pc = "rd_done" /\ m_req[2] = 0) => ap_log = << >>
    /\ (m_pc = "rd_done" /\ m_req[2] > 0) =>
          /\ CountOp("DRW_R") = m_req[2] \div Width(m_align)
                                   + BoundariesIn(m_req[1], m_req[2])
          /\ CountOp("RDBUFF") = 1
          /\ ap_log[Len(ap_log)].op = "RDBUFF"
          /\ Cardinality({ k \in 1 .. Len(ap_log) : ap_log[k].keep })
                = m_req[2] \div Width(m_align)
    /\ m_pc = "wr_done" => CountOp("DRW_W") = m_req[2] \div Width(m_align)

C5_Witness ==
    /\ m_pc = "rd_done"
    /\ m_req[2] \div Width(m_align) >= 2
    /\ BoundariesIn(m_req[1], m_req[2]) = 2
    /\ CountOp("DRW_R") = m_req[2] \div Width(m_align) + 2

\* C6: reading len bytes at an address with firmware_mem_read and writing the
\* same bytes back to the same address with adiv5_mem_write leaves every byte
\* of target memory as it was, the bytes that share a word with the range and
\* a range over a 1 KiB boundary included.
C6_RoundTripLeavesMemory ==
    (m_pc = "wr_done" /\ m_mode = "read") =>
        /\ m_buf = [ i \in 1 .. m_req[2] |-> Pattern(m_req[1] + i - 1) ]
        /\ \A a \in DOMAIN m_written : m_written[a] = Pattern(a)

C6_Witness ==
    /\ m_pc = "wr_done" /\ m_mode = "read"
    /\ m_req[1] % 4 = 1 /\ m_req[2] > 1 /\ ap_fills
    /\ BoundariesIn(m_req[1], m_req[2]) = 1
    /\ DOMAIN m_written = m_req[1] .. (m_req[1] + m_req[2] - 1)

\* C7: when firmware_mem_read crosses a 1 KiB boundary, TAR is written once
\* for that boundary, with the address of the first element of the new
\* window, before the data of that element is fetched, and exactly one DRW
\* read is dropped after it; a read inside one window writes TAR only in
\* its setup.
TarRewrites == { k \in 3 .. Len(ap_log) : ap_log[k].op = "TAR" }
DroppedReads == { k \in 1 .. Len(ap_log) : ap_log[k].op = "DRW_R" /\ ~ap_log[k].keep }
C7_TarRewrittenOncePerBoundary ==
    (m_pc = "rd_done" /\ m_req[2] > 0) =>
        /\ Cardinality(TarRewrites) = BoundariesIn(m_req[1], m_req[2])
        /\ DroppedReads = { 3 } \cup { k + 1 : k \in TarRewrites }
        /\ \A k \in TarRewrites :
              /\ ap_log[k].a % TarWindow = 0
              /\ m_req[1] < ap_log[k].a /\ ap_log[k].a < m_req[1] + m_req[2]
              /\ \A j \in TarRewrites : ap_log[j].a = ap_log[k].a => j = k
              /\ ap_log[k + 2].keep /\ ap_log[k + 2].a = ap_log[k].a
              /\ \A j \in 1 .. k : ~(ap_log[j].keep /\ ap_log[j].a = ap_log[k].a)

C7_Witness ==
    /\ m_pc = "rd_done" /\ ~ap_wraps
    /\ Cardinality(TarRewrites) = 2
    /\ Cardinality(DroppedReads) = 3

(***************************************************************************)
(*                 adiv5_component_probe: the ROM table walk               *)
(***************************************************************************)

\* Addresses are 4 KiB page numbers (addr & 0xfffff000) of a 32-bit address
\* space, an entry is << its low 12 bits, its bits 31:12 >>.
PageCount == 2 ^ 20
ROM_ENTRIES == 960

\* entry == 0, entry & ADIV5_ROM_ROMENTRY_PRESENT, and the page of
\* addr + (entry & ADIV5_ROM_ROMENTRY_OFFSET)
EntryIsZero(entry) == entry[1] = 0 /\ entry[2] = 0
EntryPresent(entry) == entry[1] % 2 = 1
EntryTarget(page, entry) == (page + entry[2]) % PageCount

\* The entries a table is made of: not present, present with offset 0 (the
\* table itself), with offset +0x1000 and with offset -0x1000.
EntryChoices == { << 2, 0 >>, << 3, 0 >>, << 3, 1 >>, << 3, PageCount - 1 >> }
Tables == UNION { [ 1 .. n -> EntryChoices ] : n \in 0 .. MaxEntries }
Components == { [ class |-> "device", entries |-> << >>, fill |-> << 0, 0 >> ] }
                 \cup { [ class |-> "romtab", entries |-> t, fill |-> << 0, 0 >> ] : t \in Tables }

\* adiv5_mem_read32(ap, addr + i * 4) of the table on page
RomEntry(page, i) ==
    IF i + 1 <= Len(r_rom[page].entries) THEN r_rom[page].entries[i + 1]
    ELSE r_rom[page].fill

\* The entry reads with the read of entry top.i of the top frame added.
EntryRead(stack, faulted) ==
    LET top == stack[Len(stack)]
    IN  Append(r_reads, << Len(stack), top.addr, top.i, faulted >>)

\* What a component identifies as: the designer and the part number of its
\* PIDR, and the word SAMX5X_DSU_CTRLSTAT reads as.
SAMX5X_STATUSB_PROT == 65536
RomIdents ==
    [ designer : { "atmel", "arm" }, partno : { 3280, 1220 },
      ctrlstat : { 0, SAMX5X_STATUSB_PROT, 2 * SAMX5X_STATUSB_PROT } ]

\* A protected SAMx5x is found: recursion == 0, the designer is Atmel, the
\* part number 0xcd0 and ctrlstat & SAMX5X_STATUSB_PROT is not 0.
ProtectedSamX5x_AnyDepth(recursion, id) ==
    /\ id.designer = "atmel" /\ id.partno = 3280
    /\ (id.ctrlstat \div SAMX5X_STATUSB_PROT) % 2 = 1
ProtectedSamX5x(recursion, id) ==
    /\ recursion = 0
    /\ id.designer = "atmel" /\ id.partno = 3280
    /\ (id.ctrlstat \div SAMX5X_STATUSB_PROT) % 2 = 1

\* adiv5_component_probe up to its ROM table loop: what a call for page does.
\* "none": no ROM table on this AP (addr == 0), nothing is read;
\* "return": the CIDR read faults or has no preamble; "protected": the
\* SAMx5x is protected, cortexm_probe is called; "device": a component is
\* looked up; "romtab": the loop starts.
ProbeOutcome(page, recursion, fault, id) ==
    IF page = 0 THEN "none"
    ELSE IF fault \/ page \notin DOMAIN r_rom THEN "return"
    ELSE IF r_rom[page].class = "romtab"
         THEN IF ProtectedSamX5x(recursion, id) THEN "protected" ELSE "romtab"
         ELSE "device"

\* The call recorded, and the calls of cortexm_probe after it.
CallOf(recursion, id, outcome) == [ recursion |-> recursion, id |-> id, outcome |-> outcome ]
CortexmAfterCall(outcome) == IF outcome = "protected" THEN r_cortexm + 1 ELSE r_cortexm

\* The stack and the pages probed after a call for page from stack.
StackAfterCall(stack, page, outcome) ==
    IF outcome = "romtab" THEN Append(stack, [ addr |-> page, i |-> 0 ]) ELSE stack
ProbedAfterCall(page, outcome) ==
    IF outcome = "none" THEN r_probed ELSE Append(r_probed, page)

\* The stack with the loop index of its top frame advanced (i++), and
\* without its top frame.
Advance(stack) ==
    [ stack EXCEPT ![Len(stack)] = [ @ EXCEPT !.i = @ + 1 ] ]
Pop_WithParent(stack) == SubSeq(stack, 1, Len(stack) - 2)
Pop(stack) == SubSeq(stack, 1, Len(stack) - 1)

\* adiv5_component_probe(ap, base, 0, 0) is called.
RomProbeCall(base, fault, id) ==
    /\ r_stack = << >> /\ ~r_done
    /\ LET outcome == ProbeOutcome(base, 0, fault, id) IN
          /\ r_call' = CallOf(0, id, outcome)
          /\ r_cortexm' = CortexmAfterCall(outcome)
          /\ r_stack' = StackAfterCall(r_stack, base, outcome)
          /\ r_probed' = ProbedAfterCall(base, outcome)
          /\ r_done' = (outcome # "romtab")
    /\ UNCHANGED << r_rom, r_reads >>
    /\ UNCHANGED << haltVars, samdVars, memVars, dpVars >>

\* The read of an entry faults: break.
RomEntryFault ==
    /\ r_stack # << >>
    /\ r_stack[Len(r_stack)].i < ROM_ENTRIES
    /\ r_reads' = EntryRead(r_stack, 1)
    /\ r_stack' = Pop(r_stack)
    /\ r_done' = (r_stack' = << >>)
    /\ UNCHANGED << r_rom, r_probed, r_call, r_cortexm >>
    /\ UNCHANGED << haltVars, samdVars, memVars, dpVars >>

\* The loop ends: the entry read is 0, or all ROM_ENTRIES entries were read.
RomEntryEnd ==
    /\ r_stack # << >>
    /\ LET top == r_stack[Len(r_stack)] IN
          \/ top.i >= ROM_ENTRIES /\ UNCHANGED r_reads
          \/ /\ top.i < ROM_ENTRIES
             /\ EntryIsZero(RomEntry(top.addr, top.i))
             /\ r_reads' = EntryRead(r_stack, 0)
    /\ r_stack' = Pop(r_stack)
    /\ r_done' = (r_stack' = << >>)
    /\ UNCHANGED << r_rom, r_probed, r_call, r_cortexm >>
    /\ UNCHANGED << haltVars, samdVars, memVars, dpVars >>

\* The entry read is not present: continue.
RomEntryAbsent ==
    /\ r_stack # << >>
    /\ LET top == r_stack[Len(r_stack)] IN
          /\ top.i < ROM_ENTRIES
          /\ ~EntryIsZero(RomEntry(top.addr, top.i))
          /\ ~EntryPresent(RomEntry(top.addr, top.i))
    /\ r_reads' = EntryRead(r_stack, 0)
    /\ r_stack' = Advance(r_stack)
    /\ UNCHANGED << r_rom, r_probed, r_done, r_call, r_cortexm >>
    /\ UNCHANGED << haltVars, samdVars, memVars, dpVars >>

\* The entry read is present: adiv5_component_probe is called for the
\* component it points to, and the loop goes on after it.
RomEntryRecurse(fault, id) ==
    /\ r_stack # << >>
    /\ Len(r_stack) < MaxDepth
    /\ LET top == r_stack[Len(r_stack)]
           entry == RomEntry(top.addr, top.i)
           page == EntryTarget(top.addr, entry)
           outcome == ProbeOutcome(page, Len(r_stack), fault, id)
       IN /\ top.i < ROM_ENTRIES
          /\ ~EntryIsZero(entry)
          /\ EntryPresent(entry)
          /\ r_reads' = EntryRead(r_stack, 0)
          /\ r_call' = CallOf(Len(r_stack), id, outcome)
          /\ r_cortexm' = CortexmAfterCall(outcome)
          /\ r_stack' = StackAfterCall(Advance(r_stack), page, outcome)
          /\ r_probed' = ProbedAfterCall(page, outcome)
    /\ UNCHANGED << r_rom, r_done >>
    /\ UNCHANGED << haltVars, samdVars, memVars, dpVars >>

InitRom ==
    /\ r_rom \in [ 1 .. RomPages -> Components ]
    /\ r_stack = << >> /\ r_probed = << >> /\ r_done = FALSE /\ r_reads = << >>
    /\ r_call = NoCall /\ r_cortexm = 0
    /\ HaltIdle /\ SamdIdle /\ MemIdle /\ DpIdle

NextRom ==
    \/ \E base \in 0 .. RomPages : \E fault \in BOOLEAN : \E id \in RomIdents :
          RomProbeCall(base, fault, id)
    \/ RomEntryFault
    \/ RomEntryEnd
    \/ RomEntryAbsent
    \/ \E fault \in BOOLEAN : \E id \in RomIdents : RomEntryRecurse(fault, id)

SpecRom == InitRom /\ [][NextRom]_vars

\* The walk over chosen tables: one whose entries are a present one, one that
\* is not present and a present one again, each pointing to the next page;
\* one with a single entry that is not present; and, on page 1 only, one
\* whose page holds no zero entry at all.
FullTable == [ class |-> "romtab", entries |-> << >>, fill |-> << 2, 0 >> ]
WalkTables ==
    { [ class |-> "romtab", entries |-> << << 3, 1 >>, << 2, 0 >>, << 3, 1 >> >>,
        fill |-> << 0, 0 >> ],
      [ class |-> "romtab", entries |-> << << 2, 0 >> >>, fill |-> << 0, 0 >> ] }
WalkComponents ==
    { [ class |-> "device", entries |-> << >>, fill |-> << 0, 0 >> ] } \cup WalkTables

InitRomWalk ==
    /\ r_rom \in [ 1 .. RomPages -> WalkComponents \cup { FullTable } ]
    /\ \A page \in 2 .. RomPages : r_rom[page] \in WalkComponents
    /\ r_stack = << >> /\ r_probed = << >> /\ r_done = FALSE /\ r_reads = << >>
    /\ r_call = NoCall /\ r_cortexm = 0
    /\ HaltIdle /\ SamdIdle /\ MemIdle /\ DpIdle

SpecRomWalk == InitRomWalk /\ [][NextRom]_vars

\* C8: the walk adiv5_component_probe(ap, base, 0, 0) probes no component
\* base address twice (and so ends): a table that points to itself or to a
\* cycle is not entered again.
C8_NoBaseProbedTwice ==
    \A j, k \in 1 .. Len(r_probed) : r_probed[j] = r_probed[k] => j = k

(***************************************************************************)
(*          adiv5_ap_ref, adiv5_dp_unref, adiv5_ap_unref, adiv5_new_ap     *)
(***************************************************************************)

\* A DP object is [refcnt, frees, stale]: its refcnt, how often it was handed
\* to free and whether it was used after that. An AP object is [refcnt,
\* frees]. The functions below give << the AP after, the DP after >>.
NewDp == [ refcnt |-> 0, frees |-> 0, stale |-> FALSE ]
Touch(d) == [ d EXCEPT !.stale = @ \/ d.frees > 0 ]

\* No AP in the history of the enumeration, and the AP object adiv5_new_ap
\* builds before it takes its reference.
NoAp == [ apsel |-> -1, base |-> -1, ops |-> << >> ]
FreshAp == [ refcnt |-> 0, frees |-> 0 ]

\* adiv5_dp_unref(dp)
adiv5_dp_unref(d) ==
    [ refcnt |-> d.refcnt - 1,
      frees |-> IF d.refcnt - 1 = 0 THEN d.frees + 1 ELSE d.frees,
      stale |-> d.stale \/ d.frees > 0 ]

\* dp->refcnt++
DpRef(d) == [ Touch(d) EXCEPT !.refcnt = @ + 1 ]

\* adiv5_ap_ref(ap)
adiv5_ap_ref_Always(ap, d) == << [ ap EXCEPT !.refcnt = @ + 1 ], DpRef(d) >>
adiv5_ap_ref(ap, d) ==
    << [ ap EXCEPT !.refcnt = @ + 1 ], IF ap.refcnt = 0 THEN DpRef(d) ELSE d >>

\* adiv5_ap_unref(ap)
adiv5_ap_unref(ap, d) ==
    IF ap.refcnt - 1 = 0
    THEN << [ refcnt |-> 0, frees |-> ap.frees + 1 ], adiv5_dp_unref(d) >>
    ELSE << [ ap EXCEPT !.refcnt = @ - 1 ], d >>

\* What adiv5_new_ap reads from the AP: IDR (0, an AHB-AP, another AP), BASE
\* (0xffffffff is -1 as a 32-bit integer) and the fields of CSW that are set.
BaseNotPresent == -1
IdrReads == { 0, 1, 2 }
BaseReads == { BaseNotPresent, 0, 4096 }
CswFields == { "SIZE", "ADDRINC", "TRINPROG", "DBGSWENABLE" }

\* adiv5_new_ap(dp, apsel): the AP returned (none for NULL), the DP after
\* and the objects allocated.
NullAp(d) == [ ap |-> << >>, dp |-> d, allocs |-> 0 ]
adiv5_new_ap_AnyIdr(idr, base, csw, malloc_ok, d) ==
    IF base = BaseNotPresent THEN NullAp(d)
    ELSE IF "TRINPROG" \in csw THEN NullAp(d)
    ELSE IF ~malloc_ok THEN NullAp(d)
    ELSE LET made == adiv5_ap_ref(FreshAp, d) IN
            [ ap |-> << [ idr |-> idr, base |-> base,
                          csw |-> csw \ { "SIZE", "ADDRINC" },
                          refcnt |-> made[1].refcnt, frees |-> made[1].frees ] >>,
              dp |-> made[2], allocs |-> 1 ]
adiv5_new_ap(idr, base, csw, malloc_ok, d) ==
    IF base = BaseNotPresent THEN NullAp(d)
    ELSE IF idr = 0 THEN NullAp(d)
    ELSE IF "TRINPROG" \in (csw \ { "SIZE", "ADDRINC" }) THEN NullAp(d)
    ELSE IF ~malloc_ok THEN NullAp(d)
    ELSE LET made == adiv5_ap_ref(FreshAp, d) IN
            [ ap |-> << [ idr |-> idr, base |-> base,
                          csw |-> csw \ { "SIZE", "ADDRINC" },
                          refcnt |-> made[1].refcnt, frees |-> made[1].frees ] >>,
              dp |-> made[2], allocs |-> 1 ]

\* adiv5_new_ap is called for a DP that other APs may hold already.
NewApCall(idr, base, csw, malloc_ok) ==
    /\ n_call = << >> /\ SelIdle
    /\ LET r == adiv5_new_ap(idr, base, csw, malloc_ok, dp) IN
          /\ n_call' = << [ idr |-> idr, base |-> base, csw |-> csw, dp |-> dp,
                            ap |-> r.ap, allocs |-> r.allocs ] >>
          /\ dp' = r.dp
          /\ ap_allocs' = ap_allocs + r.allocs
    /\ UNCHANGED << d_pc, d_i, invalid_aps, last_base, d_consecutive, d_how, target_list,
                    d_resumed, d_first_valid_dup, d_valid_seen, d_cur, d_prev, aps,
                    ap_frees >>
    /\ UNCHANGED << haltVars, samdVars, memVars, romVars, initVars, selVars >>

InitNewAp ==
    /\ dp \in { [ refcnt |-> n, frees |-> 0, stale |-> FALSE ] : n \in 0 .. MaxRefs }
    /\ d_pc = "idle" /\ d_i = 0 /\ invalid_aps = 0 /\ last_base = 0
    /\ d_consecutive = 0 /\ d_how = "none"
    /\ target_list = {} /\ d_resumed = {} /\ d_first_valid_dup = FALSE
    /\ d_valid_seen = FALSE /\ d_cur = NoAp /\ d_prev = NoAp
    /\ aps = << >> /\ ap_allocs = 0 /\ ap_frees = 0
    /\ i_pc = "idle" /\ i_version = 0 /\ i_designer = "zero" /\ i_partno = 0
    /\ i_mindp = FALSE /\ i_select = 0 /\ i_ctrlstat = {} /\ i_elapsed = 0
    /\ i_log = << >> /\ i_rescue = << >> /\ i_how = "none"
    /\ n_call = << >> /\ SelIdle
    /\ HaltIdle /\ SamdIdle /\ MemIdle /\ RomIdle

NextNewAp ==
    \E idr \in IdrReads : \E base \in BaseReads : \E csw \in SUBSET CswFields :
        \E malloc_ok \in BOOLEAN : NewApCall(idr, base, csw, malloc_ok)

SpecNewAp == InitNewAp /\ [][NextNewAp]_vars

(***************************************************************************)
(*                adiv5_dp_init: up to the enumeration of APs              *)
(***************************************************************************)

\* platform_timeout_set(&timeout, 201) and platform_delay(20)
DpInitTimeout == 201
ResetPollDelay == 20

\* The time between two reads of CTRLSTAT in a wait loop, in ms.
InitDtChoices == { MaxDt \div 12, MaxDt }

\* DPIDR as read: its version field, bit 0, the designer code its designer
\* field converts to ("zero" for 0), its part number and MINDP.
DesignerCodes == { "zero", "arm", "raspberry" }
DpidrReads ==
    [ version : 0 .. 2, valid : BOOLEAN, designer : DesignerCodes, partno : { 0, 2 },
      mindp : BOOLEAN ]
DpidrUnread ==
    [ version |-> 0, valid |-> FALSE, designer |-> "zero", partno |-> 0, mindp |-> FALSE ]

\* The fields of CTRL/STAT the power-up and the debug reset use.
PowerUpReq == { "CSYSPWRUPREQ", "CDBGPWRUPREQ" }
PowerUpAck == { "CSYSPWRUPACK", "CDBGPWRUPACK" }
CtrlstatReads ==
    { {}, { "CSYSPWRUPACK" }, { "CDBGPWRUPACK" }, PowerUpAck,
      PowerUpAck \cup { "CDBGRSTACK" } }

\* One DP transaction, with the bank SELECT holds when it is issued; val is
\* the value written, or the value a read of CTRL/STAT returned. The op of a
\* read that ended in a timeout exception is "Rx".
DpTrans(op, reg, val, bank) == [ op |-> op, reg |-> reg, val |-> val, bank |-> bank ]

\* The TARGETID read of a DP version 2: SELECT is written with 2 (TARGETID is
\* on bank 2), TARGETID is read, SELECT is written with 0.
TargetIdAccess_NoRestore(sel) ==
    << DpTrans("W", "SELECT", 2, sel), DpTrans("R", "TARGETID", 0, 2) >>
TargetIdAccess(sel) ==
    << DpTrans("W", "SELECT", 2, sel), DpTrans("R", "TARGETID", 0, 2),
       DpTrans("W", "SELECT", 0, 2) >>

\* The bank SELECT holds after the transactions of seq, sel before them.
SelectWrites(seq) == { k \in 1 .. Len(seq) : seq[k].reg = "SELECT" /\ seq[k].op = "W" }
SelectAfter(seq, sel) ==
    IF SelectWrites(seq) = {} THEN sel
    ELSE seq[CHOOSE k \in SelectWrites(seq) : \A j \in SelectWrites(seq) : j <= k].val

\* free(dp)
DpFree(d) == [ d EXCEPT !.frees = @ + 1 ]

\* dp->version after the DPIDR is decoded: an invalid designer makes it 0.
VersionOf(d) ==
    IF d.version > 0 /\ d.valid /\ d.designer = "zero" THEN 0 ELSE d.version

\* The DP is the one of the RP2040 rescue path.
IsRescueDp(designer, partno) == designer = "raspberry" /\ partno = 2

\* The AP rp_rescue_setup builds: calloc, ap->dp = dp.
RescueAp(d) == [ refcnt |-> 0, dp_refcnt |-> d.refcnt ]

\* adiv5_dp_init(dp, idcode) up to dp->version and the designer: the DPIDR
\* is read unless idcode is JTAG_IDCODE_ARM_DPv0; an exception of that read
\* frees the DP and returns.
DpInitCall(v0, raised, dpidr) ==
    /\ i_pc = "idle"
    /\ i_log' = IF v0 THEN i_log
                ELSE Append(i_log, DpTrans("R", "DPIDR", 0, i_select))
    /\ IF ~v0 /\ raised
       THEN /\ dp' = DpFree(dp)
            /\ i_pc' = "returned"
            /\ i_how' = "no_response"
            /\ UNCHANGED << i_version, i_designer, i_partno, i_mindp >>
       ELSE LET d == IF v0 THEN DpidrUnread ELSE dpidr
                known == d.version > 0 /\ d.valid /\ d.designer # "zero"
            IN /\ i_version' = VersionOf(d)
               /\ i_designer' = IF known THEN d.designer ELSE "zero"
               /\ i_partno' = IF known THEN d.partno ELSE 0
               /\ i_mindp' = IF known THEN d.mindp ELSE FALSE
               /\ i_pc' = "identified"
               /\ UNCHANGED << dp, i_how >>
    /\ UNCHANGED << i_select, i_ctrlstat, i_elapsed, i_rescue >>
    /\ UNCHANGED << haltVars, samdVars, memVars, romVars, enumVars, apVars >>

\* adiv5_dp_init from the TARGETID read to the rescue path: for version >= 2
\* SELECT is written with 2, TARGETID is read and SELECT is written with 0;
\* an RP2040 DP goes to rp_rescue_setup, which hands its AP to
\* rp_rescue_probe unless calloc fails, and adiv5_dp_init returns.
DpInitTargetId(raised, calloc_ok) ==
    /\ i_pc = "identified"
    /\ LET issued == IF i_version < 2 THEN << >>
                     ELSE IF raised THEN SubSeq(TargetIdAccess(i_select), 1, 2)
                     ELSE TargetIdAccess(i_select)
       IN /\ i_log' = i_log \o issued
          /\ i_select' = SelectAfter(issued, i_select)
    /\ IF i_version >= 2 /\ raised
       THEN /\ i_pc' = "raised"
            /\ UNCHANGED << i_rescue, i_how >>
       ELSE IF IsRescueDp(i_designer, i_partno)
            THEN /\ i_rescue' = IF calloc_ok THEN Append(i_rescue, RescueAp(dp))
                                ELSE i_rescue
                 /\ i_pc' = "returned"
                 /\ i_how' = "rescue"
            ELSE /\ i_pc' = "selected"
                 /\ UNCHANGED << i_rescue, i_how >>
    /\ UNCHANGED << dp, i_version, i_designer, i_partno, i_mindp, i_ctrlstat, i_elapsed >>
    /\ UNCHANGED << haltVars, samdVars, memVars, romVars, enumVars, apVars >>

\* The first read of CTRL/STAT: a timeout exception of the read is answered
\* with adiv5_dp_abort(dp, ADIV5_DP_ABORT_DAPABORT) and a second read.
FirstCtrlstatRead_AbortAlways(timed_out, read, sel) ==
    << DpTrans(IF timed_out THEN "Rx" ELSE "R", "CTRLSTAT", {}, sel),
       DpTrans("W", "ABORT", "DAPABORT", sel),
       DpTrans("R", "CTRLSTAT", read, sel) >>
FirstCtrlstatRead(timed_out, read, sel) ==
    IF timed_out
    THEN << DpTrans("Rx", "CTRLSTAT", {}, sel),
            DpTrans("W", "ABORT", "DAPABORT", sel),
            DpTrans("R", "CTRLSTAT", read, sel) >>
    ELSE << DpTrans("R", "CTRLSTAT", read, sel) >>

\* check == (ADIV5_DP_CTRLSTAT_CSYSPWRUPACK | ADIV5_DP_CTRLSTAT_CDBGPWRUPACK)
PowerUpAcked_Either(read) == read \cap PowerUpAck # {}
PowerUpAcked(read) == PowerUpAck \subseteq read

\* adiv5_dp_init from the first read of CTRL/STAT to the power-up request:
\* a timeout of the read is answered with DAPABORT and a second read.
DpInitPowerUp(timed_out, read) ==
    /\ i_pc = "selected"
    /\ i_ctrlstat' = read \cup PowerUpReq
    /\ i_log' = i_log \o FirstCtrlstatRead(timed_out, read, i_select)
                     \o << DpTrans("W", "CTRLSTAT", i_ctrlstat', i_select) >>
    /\ i_elapsed' = 0
    /\ i_pc' = "pwr_wait"
    /\ UNCHANGED << dp, i_version, i_designer, i_partno, i_mindp, i_select, i_rescue, i_how >>
    /\ UNCHANGED << haltVars, samdVars, memVars, romVars, enumVars, apVars >>

\* One iteration of the wait for the power-up acknowledge: with both ACK bits
\* the debug reset is requested and released, with the timeout expired the
\* DP is freed and adiv5_dp_init returns.
DpInitPowerUpPoll(read, dt) ==
    /\ i_pc = "pwr_wait"
    /\ i_elapsed' = i_elapsed + dt
    /\ IF PowerUpAcked(read)
       THEN /\ i_ctrlstat' = read
            /\ i_log' = i_log \o << DpTrans("R", "CTRLSTAT", read, i_select),
                    DpTrans("W", "CTRLSTAT", read \cup { "CDBGRSTREQ" }, i_select),
                    DpTrans("W", "CTRLSTAT", read, i_select) >>
            /\ i_pc' = "rst_wait"
            /\ UNCHANGED << dp, i_how >>
       ELSE /\ i_ctrlstat' = read
            /\ i_log' = Append(i_log, DpTrans("R", "CTRLSTAT", read, i_select))
            /\ IF platform_timeout_is_expired(i_elapsed', DpInitTimeout)
               THEN /\ dp' = DpFree(dp)
                    /\ i_pc' = "returned"
                    /\ i_how' = "power_up_failed"
               ELSE UNCHANGED << dp, i_pc, i_how >>
    /\ UNCHANGED << i_version, i_designer, i_partno, i_mindp, i_select, i_rescue >>
    /\ UNCHANGED << haltVars, samdVars, memVars, romVars, enumVars, apVars >>

\* One iteration of the wait for the debug reset acknowledge: the
\* enumeration follows the acknowledge, and the expired timeout as well.
DpInitResetPoll(read, dt) ==
    /\ i_pc = "rst_wait"
    /\ i_elapsed' = i_elapsed + ResetPollDelay + dt
    /\ i_ctrlstat' = read
    /\ i_log' = Append(i_log, DpTrans("R", "CTRLSTAT", read, i_select))
    /\ IF "CDBGRSTACK" \in read \/ platform_timeout_is_expired(i_elapsed', DpInitTimeout)
       THEN i_pc' = "enum"
       ELSE UNCHANGED i_pc
    /\ UNCHANGED << dp, i_version, i_designer, i_partno, i_mindp, i_select, i_rescue, i_how >>
    /\ UNCHANGED << haltVars, samdVars, memVars, romVars, enumVars, apVars >>

InitDpInit ==
    /\ DpIdle
    /\ HaltIdle /\ SamdIdle /\ MemIdle /\ RomIdle

NextDpInit ==
    \/ \E v0, raised \in BOOLEAN : \E dpidr \in DpidrReads : DpInitCall(v0, raised, dpidr)
    \/ \E raised, calloc_ok \in BOOLEAN : DpInitTargetId(raised, calloc_ok)
    \/ \E timed_out \in BOOLEAN : \E read \in CtrlstatReads : DpInitPowerUp(timed_out, read)
    \/ \E read \in CtrlstatReads : \E dt \in InitDtChoices : DpInitPowerUpPoll(read, dt)
    \/ \E read \in CtrlstatReads : \E dt \in InitDtChoices : DpInitResetPoll(read, dt)

SpecDpInit == InitDpInit /\ [][NextDpInit]_vars

(***************************************************************************)
(*                  adiv5_dp_init: the enumeration of APs                  *)
(***************************************************************************)

\* for (size_t i = 0; i < 256 && invalid_aps < 8; ++i)
AP_COUNT == 256
INVALID_AP_LIMIT == 8

\* The values of BASE valid APs have: 0 and two more.
ApBases == { 0, 4096, 8192 }

\* The loop condition.
EnumContinues(i, invalid) == i < AP_COUNT /\ invalid < INVALID_AP_LIMIT

\* What the loop body does with a valid AP whose BASE is new, in order: the
\* family probes, cortexm_prepare for an AHB-AP at index 0, the ROM table
\* walk, adiv5_ap_unref.
ProbeOps_NoWalk(apsel, ahb) ==
    << "family" >> \o (IF apsel = 0 /\ ahb THEN << "prepare" >> ELSE << >>) \o << "unref" >>
ProbeOps(apsel, ahb) ==
    << "family" >> \o (IF apsel = 0 /\ ahb THEN << "prepare" >> ELSE << >>)
        \o << "walk", "unref" >>

\* What it does with a valid AP whose BASE is last_base.
DuplicateOps == << "unref" >>

\* The AP objects targets hold, with one more or as they are.
Held(h, ap, linked) == IF linked = 1 THEN Append(h, ap) ELSE h

\* adiv5_dp_init reaches the enumeration: dp->refcnt++.
DpEnumStart ==
    /\ d_pc = "idle"
    /\ d_pc' = "enum"
    /\ d_i' = 0
    /\ last_base' = 0
    /\ invalid_aps' = 0
    /\ dp' = DpRef(dp)
    /\ UNCHANGED << d_consecutive, d_how, target_list, d_resumed, d_first_valid_dup,
                    d_valid_seen, d_cur, d_prev, aps, ap_allocs, ap_frees >>
    /\ UNCHANGED << haltVars, samdVars, memVars, romVars, initVars, apVars >>

\* adiv5_new_ap(dp, i) returns NULL: the eighth invalid AP returns from
\* adiv5_dp_init, any other goes on with the next index.
DpApInvalid ==
    /\ d_pc = "enum"
    /\ EnumContinues(d_i, invalid_aps)
    /\ invalid_aps' = invalid_aps + 1
    /\ d_consecutive' = d_consecutive + 1
    /\ IF invalid_aps' = INVALID_AP_LIMIT
       THEN /\ d_pc' = "returned"
            /\ d_how' = "limit"
            /\ dp' = adiv5_dp_unref(dp)
            /\ UNCHANGED d_i
       ELSE /\ d_i' = d_i + 1
            /\ UNCHANGED << d_pc, d_how, dp >>
    /\ UNCHANGED << last_base, target_list, d_resumed, d_first_valid_dup, d_valid_seen,
                    d_cur, d_prev, aps, ap_allocs, ap_frees >>
    /\ UNCHANGED << haltVars, samdVars, memVars, romVars, initVars, apVars >>

\* The AP is valid and its BASE is last_base: the AP is released and
\* adiv5_dp_init returns.
DpApDuplicate(base) ==
    /\ d_pc = "enum"
    /\ EnumContinues(d_i, invalid_aps)
    /\ base = last_base
    /\ d_pc' = "returned"
    /\ d_how' = "duplicate"
    /\ d_first_valid_dup' = ~d_valid_seen
    /\ d_prev' = d_cur
    /\ d_cur' = [ apsel |-> d_i, base |-> base, ops |-> DuplicateOps ]
    /\ LET made == adiv5_ap_ref(FreshAp, dp)
           dropped == adiv5_ap_unref(made[1], made[2])
       IN /\ dp' = adiv5_dp_unref(dropped[2])
          /\ ap_allocs' = ap_allocs + 1
          /\ ap_frees' = ap_frees + dropped[1].frees
    /\ UNCHANGED << d_i, invalid_aps, last_base, d_consecutive, target_list, d_resumed,
                    d_valid_seen, aps >>
    /\ UNCHANGED << haltVars, samdVars, memVars, romVars, initVars, apVars >>

\* The AP is valid and its BASE is new: the AP is probed, which links
\* linked more targets, each holding a reference to the AP, the AP is
\* released and the loop goes on with the next index.
DpApProbe(base, ahb, linked) ==
    /\ d_pc = "enum"
    /\ EnumContinues(d_i, invalid_aps)
    /\ base # last_base
    /\ Cardinality(target_list) + linked <= MaxTargets
    /\ last_base' = base
    /\ target_list' = 1 .. (Cardinality(target_list) + linked)
    /\ d_i' = d_i + 1
    /\ d_consecutive' = 0
    /\ d_valid_seen' = TRUE
    /\ d_cur' = [ apsel |-> d_i, base |-> base, ops |-> ProbeOps(d_i, ahb) ]
    /\ LET made == adiv5_ap_ref(FreshAp, dp)
           taken == IF linked = 1 THEN adiv5_ap_ref(made[1], made[2]) ELSE made
           dropped == adiv5_ap_unref(taken[1], taken[2])
       IN /\ dp' = dropped[2]
          /\ aps' = Held(aps, dropped[1], linked)
          /\ ap_allocs' = ap_allocs + 1
          /\ ap_frees' = ap_frees + dropped[1].frees
    /\ UNCHANGED << d_pc, invalid_aps, d_how, d_resumed, d_first_valid_dup, d_prev >>
    /\ UNCHANGED << haltVars, samdVars, memVars, romVars, initVars, apVars >>

\* The loop is over: target_halt_resume(t, false) for every target of
\* target_list unless connect_assert_nrst, adiv5_dp_unref, return.
DpEnumEnd ==
    /\ d_pc = "enum"
    /\ ~EnumContinues(d_i, invalid_aps)
    /\ d_resumed' = IF ~connect_assert_nrst THEN target_list ELSE {}
    /\ d_pc' = "returned"
    /\ d_how' = "all"
    /\ dp' = adiv5_dp_unref(dp)
    /\ UNCHANGED << d_i, invalid_aps, last_base, d_consecutive, target_list,
                    d_first_valid_dup, d_valid_seen, d_cur, d_prev, aps, ap_allocs,
                    ap_frees >>
    /\ UNCHANGED << haltVars, samdVars, memVars, romVars, initVars, apVars >>

\* After adiv5_dp_init: a driver takes one more reference to an AP it holds.
DriverApRef(k) ==
    /\ d_pc = "returned"
    /\ k \in DOMAIN aps
    /\ aps[k].refcnt > 0 /\ aps[k].refcnt < MaxRefs
    /\ LET r == adiv5_ap_ref(aps[k], dp) IN
          /\ aps' = [ aps EXCEPT ![k] = r[1] ]
          /\ dp' = r[2]
    /\ UNCHANGED << d_pc, d_i, invalid_aps, last_base, d_consecutive, d_how, target_list,
                    d_resumed, d_first_valid_dup, d_valid_seen, d_cur, d_prev, ap_allocs,
                    ap_frees >>
    /\ UNCHANGED << haltVars, samdVars, memVars, romVars, initVars, apVars >>

\* After adiv5_dp_init: a driver drops a reference it holds.
DriverApUnref(k) ==
    /\ d_pc = "returned"
    /\ k \in DOMAIN aps
    /\ aps[k].refcnt > 0
    /\ LET r == adiv5_ap_unref(aps[k], dp) IN
          /\ aps' = [ aps EXCEPT ![k] = r[1] ]
          /\ dp' = r[2]
          /\ ap_frees' = ap_frees + (r[1].frees - aps[k].frees)
    /\ UNCHANGED << d_pc, d_i, invalid_aps, last_base, d_consecutive, d_how, target_list,
                    d_resumed, d_first_valid_dup, d_valid_seen, d_cur, d_prev, ap_allocs >>
    /\ UNCHANGED << haltVars, samdVars, memVars, romVars, initVars, apVars >>

InitDp ==
    /\ DpIdle
    /\ connect_assert_nrst \in BOOLEAN
    /\ HaltQuiet /\ SamdIdle /\ MemIdle /\ RomIdle

NextDp ==
    \/ DpEnumStart
    \/ DpApInvalid
    \/ \E base \in ApBases : DpApDuplicate(base)
    \/ \E base \in ApBases : \E ahb \in BOOLEAN : \E linked \in 0 .. 1 :
          DpApProbe(base, ahb, linked)
    \/ DpEnumEnd
    \/ \E k \in 1 .. MaxTargets : DriverApRef(k)
    \/ \E k \in 1 .. MaxTargets : DriverApUnref(k)

SpecDp == InitDp /\ [][NextDp]_vars

(***************************************************************************)
(*                  DP SELECT and the accesses to AP registers             *)
(***************************************************************************)

\* The addresses of the AP registers the code accesses, without the APnDP bit
ApRegs == [CSW |-> 0, TAR |-> 4, DRW |-> 12, CFG |-> 244, BASE |-> 248, IDR |-> 252]

ApSels == 0 .. MaxApsel

\* ((uint32_t)ap->apsel << 24) | (addr & 0xF0)
SelectValue_NoBank(apsel, addr) == apsel * (2 ^ 24)
SelectValue(apsel, addr) == apsel * (2 ^ 24) + ((addr \div 16) % 16) * 16

\* One access to the register at addr of the AP apsel, as sel_last keeps it:
\* select is what DP SELECT holds when the access is made, low tells an
\* adiv5_dp_low_access from a firmware_ap_read / firmware_ap_write.
ApAccess(apsel, addr, select, low) ==
    [apsel |-> apsel, addr |-> addr, select |-> select, low |-> low]

\* firmware_ap_write(ap, addr, value) / firmware_ap_read(ap, addr): SELECT is
\* written, then the register is accessed.
firmware_ap_access(apsel, addr) ==
    ApAccess(apsel, addr, SelectValue(apsel, addr), FALSE)

\* adiv5_ap_read / adiv5_ap_write of one register, outside the routines below
\* (adiv5_new_ap reads IDR, BASE, CSW and CFG this way).
ApRegAccess(apsel, addr) ==
    /\ sel_pc = "idle"
    /\ dp_select' = SelectValue(apsel, addr)
    /\ sel_last' = << firmware_ap_access(apsel, addr) >>
    /\ UNCHANGED << sel_pc, sel_ap >>
    /\ UNCHANGED << n_call, haltVars, samdVars, memVars, romVars, initVars, enumVars, dp >>

\* adiv5_dp_init writes 2 and then 0 to SELECT around the read of TARGETID.
DpSelectWrite(bank) ==
    /\ sel_pc = "idle"
    /\ dp_select' = bank
    /\ sel_last' = << >>
    /\ UNCHANGED << sel_pc, sel_ap >>
    /\ UNCHANGED << n_call, haltVars, samdVars, memVars, romVars, initVars, enumVars, dp >>

\* ap_mem_access_setup(ap, addr, align), as firmware_mem_read and
\* firmware_mem_write_sized call it first: CSW is written with adiv5_ap_write,
\* TAR with a low access.
MemAccessSetup(apsel) ==
    /\ sel_pc = "idle"
    /\ sel_ap' = apsel
    /\ dp_select' = SelectValue(apsel, ApRegs.CSW)
    /\ sel_last' = << firmware_ap_access(apsel, ApRegs.CSW),
                      ApAccess(apsel, ApRegs.TAR, dp_select', TRUE) >>
    /\ sel_pc' = "mem"
    /\ UNCHANGED << n_call, haltVars, samdVars, memVars, romVars, initVars, enumVars, dp >>

\* A low access to DRW or TAR in the loop of a memory transfer
MemLowAccess(addr) ==
    /\ sel_pc = "mem"
    /\ sel_last' = << ApAccess(sel_ap, addr, dp_select, TRUE) >>
    /\ UNCHANGED << dp_select, sel_pc, sel_ap >>
    /\ UNCHANGED << n_call, haltVars, samdVars, memVars, romVars, initVars, enumVars, dp >>

\* The transfer ends with a read of RDBUFF, a register of the DP.
MemReturn ==
    /\ sel_pc = "mem"
    /\ sel_pc' = "idle"
    /\ sel_last' = << >>
    /\ UNCHANGED << dp_select, sel_ap >>
    /\ UNCHANGED << n_call, haltVars, samdVars, memVars, romVars, initVars, enumVars, dp >>

\* cortexm_initial_halt(ap) up to its loop: with use_low_access CSW is written
\* with adiv5_ap_write and TAR with a low access.
InitialHaltSetup(apsel, minimal) ==
    /\ sel_pc = "idle"
    /\ sel_ap' = apsel
    /\ IF minimal
       THEN /\ sel_pc' = "halt_mem"
            /\ sel_last' = << >>
            /\ UNCHANGED dp_select
       ELSE /\ sel_pc' = "halt_low"
            /\ dp_select' = SelectValue(apsel, ApRegs.CSW)
            /\ sel_last' = << firmware_ap_access(apsel, ApRegs.CSW),
                              ApAccess(apsel, ApRegs.TAR, dp_select', TRUE) >>
    /\ UNCHANGED << n_call, haltVars, samdVars, memVars, romVars, initVars, enumVars, dp >>

\* One iteration of the loop with use_low_access: CTRL/STAT of the DP is
\* written, then DRW is written and read, all three with low accesses.
InitialHaltLow ==
    /\ sel_pc = "halt_low"
    /\ sel_last' = << ApAccess(sel_ap, ApRegs.DRW, dp_select, TRUE),
                      ApAccess(sel_ap, ApRegs.DRW, dp_select, TRUE) >>
    /\ UNCHANGED << dp_select, sel_pc, sel_ap >>
    /\ UNCHANGED << n_call, haltVars, samdVars, memVars, romVars, initVars, enumVars, dp >>

\* One iteration of the loop without it: adiv5_mem_write and adiv5_mem_read32
\* of DHCSR, each a transfer of one word (setup, DRW, RDBUFF).
InitialHaltMem ==
    /\ sel_pc = "halt_mem"
    /\ dp_select' = SelectValue(sel_ap, ApRegs.CSW)
    /\ sel_last' = << firmware_ap_access(sel_ap, ApRegs.CSW),
                      ApAccess(sel_ap, ApRegs.TAR, dp_select', TRUE),
                      ApAccess(sel_ap, ApRegs.DRW, dp_select', TRUE),
                      firmware_ap_access(sel_ap, ApRegs.CSW),
                      ApAccess(sel_ap, ApRegs.TAR, dp_select', TRUE),
                      ApAccess(sel_ap, ApRegs.DRW, dp_select', TRUE) >>
    /\ UNCHANGED << sel_pc, sel_ap >>
    /\ UNCHANGED << n_call, haltVars, samdVars, memVars, romVars, initVars, enumVars, dp >>

\* cortexm_initial_halt returns.
InitialHaltReturn ==
    /\ sel_pc \in { "halt_low", "halt_mem" }
    /\ sel_pc' = "idle"
    /\ sel_last' = << >>
    /\ UNCHANGED << dp_select, sel_ap >>
    /\ UNCHANGED << n_call, haltVars, samdVars, memVars, romVars, initVars, enumVars, dp >>

InitSelect ==
    /\ DpIdle
    /\ HaltIdle /\ SamdIdle /\ MemIdle /\ RomIdle

NextSelect ==
    \/ \E apsel \in ApSels, reg \in DOMAIN ApRegs : ApRegAccess(apsel, ApRegs[reg])
    \/ \E bank \in { 0, 2 } : DpSelectWrite(bank)
    \/ \E apsel \in ApSels : MemAccessSetup(apsel)
    \/ \E reg \in { "TAR", "DRW" } : MemLowAccess(ApRegs[reg])
    \/ MemReturn
    \/ \E apsel \in ApSels, minimal \in BOOLEAN : InitialHaltSetup(apsel, minimal)
    \/ InitialHaltLow
    \/ InitialHaltMem
    \/ InitialHaltReturn

SpecSelect == InitSelect /\ [][NextSelect]_vars

\* C9: the enumeration ends early on invalid APs exactly when the last 8
\* indices probed were all invalid; invalid APs before a valid one do not
\* count towards the 8.
C9_LimitOnlyAfterConsecutiveInvalid ==
    d_how = "limit" => d_consecutive = INVALID_AP_LIMIT

\* C10: however the enumeration ends, when adiv5_dp_init returns
\* target_halt_resume(t, false) was called for every target of target_list if
\* connect-under-reset is not requested, and for none if it is.
C10_ResumedBeforeReturn ==
    d_pc = "returned" =>
        d_resumed = IF connect_assert_nrst THEN {} ELSE target_list

\* C11: when a valid AP has the BASE of the valid AP enumerated before it, it
\* is released with no family probe, no cortexm_prepare and no ROM table walk,
\* adiv5_dp_init returns without probing a higher index, and the AP before it
\* was walked exactly once.
WalksOf(ap) == Cardinality({ k \in 1 .. Len(ap.ops) : ap.ops[k] = "walk" })
C11_DuplicateEndsEnumeration ==
    (d_how = "duplicate" /\ d_prev # NoAp) =>
        /\ d_pc = "returned"
        /\ d_cur.base = d_prev.base
        /\ d_cur.ops = << "unref" >>
        /\ d_cur.apsel = d_i /\ d_prev.apsel < d_i
        /\ WalksOf(d_prev) = 1
        /\ ap_allocs - ap_frees = Cardinality({ k \in DOMAIN aps : aps[k].refcnt > 0 })

C11_Witness ==
    /\ d_how = "duplicate" /\ d_prev # NoAp
    /\ d_cur.base # 0 /\ d_i > d_prev.apsel + 1 /\ d_prev.apsel > 0

\* C12: from the enumeration of adiv5_dp_init on and over any later
\* adiv5_ap_ref / adiv5_ap_unref calls, the DP's refcnt is the number of its
\* APs with refcnt > 0, plus one while adiv5_dp_init holds its own reference;
\* the DP is freed once, exactly when that count is zero, an AP is freed
\* exactly when its refcnt is zero, nothing is freed twice and the DP is not
\* used after it was freed.
LiveAps == { k \in DOMAIN aps : aps[k].refcnt > 0 }
C12_RefcountsBalanced ==
    d_pc # "idle" =>
        /\ dp.refcnt = Cardinality(LiveAps) + (IF d_pc = "enum" THEN 1 ELSE 0)
        /\ dp.frees = (IF dp.refcnt = 0 THEN 1 ELSE 0)
        /\ ~dp.stale
        /\ \A k \in DOMAIN aps : aps[k].frees = (IF aps[k].refcnt = 0 THEN 1 ELSE 0)
        /\ ap_allocs - ap_frees = Cardinality(LiveAps)

C12_Witness ==
    /\ d_pc = "returned" /\ d_how = "all"
    /\ aps # << >> /\ dp.frees = 1 /\ aps[1].frees = 1
    /\ ap_allocs > AP_COUNT - INVALID_AP_LIMIT

\* C13: every AP that stores a pointer to a DP and is handed to a probe
\* routine has incremented that DP's refcount before: here the AP that
\* rp_rescue_setup hands to rp_rescue_probe.
C13_RescueApHoldsReference ==
    \A k \in 1 .. Len(i_rescue) : i_rescue[k].refcnt > 0 /\ i_rescue[k].dp_refcnt > 0

\* C14: adiv5_new_ap returns NULL, allocates nothing and leaves the DP's
\* refcnt as it was whenever BASE reads 0xffffffff or IDR reads 0; an AP it
\* returns has refcnt 1, has raised the DP's refcnt by one and caches CSW
\* without the size and address-increment fields.
C14_NewApContract ==
    \A k \in 1 .. Len(n_call) :
        LET c == n_call[k] IN
           /\ (c.base = BaseNotPresent \/ c.idr = 0) =>
                 (c.ap = << >> /\ c.allocs = 0 /\ dp = c.dp /\ ap_allocs = 0)
           /\ c.ap # << >> =>
                 /\ c.ap[1].refcnt = 1
                 /\ dp.refcnt = c.dp.refcnt + 1
                 /\ c.ap[1].csw = c.csw \ { "SIZE", "ADDRINC" }
                 /\ c.ap[1].idr = c.idr /\ c.ap[1].base = c.base
                 /\ c.allocs = 1

C14_Witness ==
    /\ n_call # << >>
    /\ n_call[1].ap # << >>
    /\ n_call[1].csw = { "SIZE", "ADDRINC", "DBGSWENABLE" }
    /\ n_call[1].dp.refcnt > 0

\* The transactions of adiv5_dp_init after the read of DPIDR.
AfterDpidr ==
    IF i_log # << >> /\ i_log[1].reg = "DPIDR" THEN SubSeq(i_log, 2, Len(i_log)) ELSE i_log
Banked(k) == i_log[k].reg \in { "CTRLSTAT", "ABORT" }

CtrlaWrites == { k \in 1 .. Len(nvmc_log) : nvmc_log[k].reg = "CTRLA" }
FlashCommands ==
    { k \in CtrlaWrites :
        CmdOf(nvmc_log[k].val) \in { SAMD_CTRLA_CMD_ERASEROW, SAMD_CTRLA_CMD_WRITEPAGE } }
IsCommand(k, cmd) ==
    /\ k \in CtrlaWrites
    /\ CmdOf(nvmc_log[k].val) = cmd
    /\ KeyOf(nvmc_log[k].val) = SAMD_CTRLA_CMD_KEY

\* C16: in a samd_flash_erase or samd_flash_write call that returns 0, every
\* ERASEROW and WRITEPAGE written to CTRLA comes right after an UNLOCK and is
\* followed, once READY was read, by a LOCK before the next command or the
\* return; every command word carries the key 0xA500.
C16_CommandsBracketed ==
    (s_op \in { "erase", "write" } /\ s_pc = "done" /\ s_ret = 0) =>
        /\ \A k \in FlashCommands :
              /\ IsCommand(k - 1, SAMD_CTRLA_CMD_UNLOCK)
              /\ k + 2 <= Len(nvmc_log)
              /\ nvmc_log[k + 1] = ReadyRead
              /\ IsCommand(k + 2, SAMD_CTRLA_CMD_LOCK)
        /\ \A k \in CtrlaWrites : KeyOf(nvmc_log[k].val) = SAMD_CTRLA_CMD_KEY
        /\ Cardinality(CtrlaWrites) = 3 * Cardinality(FlashCommands)

C16_Witness ==
    /\ s_op = "erase" /\ s_pc = "done" /\ s_ret = 0
    /\ Cardinality(FlashCommands) = FlashRows

\* C17: samd_flash_erase(f, addr, len) that returns 0 has issued, for len
\* > 0, exactly ceil(len / 256) ERASEROW commands, for the rows at addr,
\* addr + 256, ... in this order, each after ADDRESS was written with the
\* address of its row shifted right by 1; for len = 0 it has accessed the NVMC
\* not at all.
AddressWrites == { k \in 1 .. Len(nvmc_log) : nvmc_log[k].reg = "ADDRESS" }
RowsToErase(len) == (len + SAMD_ROW_SIZE - 1) \div SAMD_ROW_SIZE
C18_ReadyPollsEnd ==
    [](s_op \in { "erase", "write" } => <>(s_pc = "done"))

\* C19: samd_parse_device_id is reversible on the recognised parts: two DIDs
\* that differ in family, series, devsel or revision never decode to the same
\* descriptor (family letter, series number, pin, mem, variant, package,
\* revision).
C19_DecodeInjective ==
    (s_op = "parse" /\ s_pc = "done" /\ Recognised(p_did)) =>
       \A other \in DidWords :
          (Recognised(other) /\ DidFields(other) # DidFields(p_did)) =>
             Descriptor(Decoded(other)) # Descriptor(p_samd)

\* C20: when an ADI error is latched while samd_set_flashlock or
\* samd_set_bootprot polls for READY after ERASEAUXROW, the function reports
\* failure: its boolean result is false.
C20_PollErrorReturnsFalse ==
    (s_op \in { "set_flashlock", "set_bootprot" } /\ s_pc = "done" /\ poll_error) =>
       s_ret = 0

\* C21: samd_mass_erase returns true whenever the poll of the DSU ended with
\* DONE, PERR or FAIL set, a protection error or an erase failure being
\* reported through the printed message only, and returns false only when
\* an ADI error was latched during the poll.
C21_MassEraseResult ==
    (s_op = "mass_erase" /\ s_pc = "done") =>
       /\ (me_status # {}) => (s_ret = 1)
       /\ (s_ret = 0) <=> poll_error
       /\ poll_error => (me_status = {} /\ tc_out = << >>)
       /\ ("PERR" \in me_status) =>
             (tc_out = << "Erase failed due to a protection error." >>)
       /\ ("FAIL" \in me_status /\ "PERR" \notin me_status) =>
             (tc_out = << "Erase failed." >>)
       /\ (me_status = { "DONE" }) => (tc_out = << >>)

C21_Witness ==
    /\ s_op = "mass_erase" /\ s_pc = "done" /\ s_ret = 1
    /\ "PERR" \in me_status /\ tc_out # << >>

\* C22: if the allocation of the driver's private storage or of the Flash
\* region fails during samd_probe, the probe returns false and leaves no
\* partially set-up target: no hook installed, no RAM region, Flash region
\* or command list added.
C22_FailedAllocationFailsProbe ==
    (s_op = "probe" /\ s_pc \in { "done", "fault" } /\ calloc_failed) =>
       (s_pc = "done" /\ s_ret = 0 /\ tgt = NewTarget)

\* C23: against an AP with pipelined reads (a DRW read returns the data of
\* the read posted before it, RDBUFF that of the last one) and a TAR that
\* wraps inside its 1 KiB window, firmware_mem_read(ap, dest, src, len)
\* stores into dest[0 .. len-1] exactly the target bytes at src .. src+len-1,
\* at byte, half-word and word width and over 1 KiB boundaries, each taken
\* from the byte lane of its address.
C23_ReadStoresTargetBytes ==
    (m_mode = "read" /\ m_pc = "rd_done") =>
        /\ Len(m_buf) = m_req[2]
        /\ \A i \in 1 .. m_req[2] : m_buf[i] = Mem(m_req[1] + i - 1)

C23_Witness ==
    /\ m_mode = "read" /\ m_pc = "rd_done" /\ ap_wraps /\ ap_fills
    /\ m_align = ALIGN_HALFWORD /\ m_req[1] % 4 = 2
    /\ BoundariesIn(m_req[1], m_req[2]) = 1
    /\ Len(m_buf) = m_req[2]

\* C24: whenever a register at address a of the AP with selector n is
\* accessed, through firmware_ap_read / firmware_ap_write or through the low
\* accesses to TAR and DRW of the memory transfers and of
\* cortexm_initial_halt, the value last written to DP SELECT is
\* (n << 24) | (a & 0xF0).
C24_SelectMatchesEveryApAccess ==
    \A k \in 1 .. Len(sel_last) :
       /\ sel_last[k].select = dp_select
       /\ sel_last[k].select \div (2 ^ 24) = sel_last[k].apsel
       /\ sel_last[k].select % (2 ^ 24) = sel_last[k].addr - (sel_last[k].addr % 16)

C24_Witness ==
    /\ sel_pc = "halt_low" /\ sel_ap = 1
    /\ Len(sel_last) = 2 /\ sel_last[2].low /\ sel_last[2].addr = ApRegs.DRW
    /\ dp_select = 2 ^ 24

\* C25: for every address and length, adiv5_mem_write and firmware_mem_read
\* pick as transfer width the largest of 1, 2 and 4 bytes that divides both
\* the address and the length: word only when both are 4-aligned, half-word
\* only when both are 2-aligned, byte otherwise.
C25_WidthIsLargestDividingBoth ==
    (m_mode = "read" /\ m_pc \in { "rd_loop", "rd_done", "wr_loop", "wr_done" }) =>
        LET w == Width(m_align)
            divides(v) == m_req[1] % v = 0 /\ m_req[2] % v = 0
        IN  /\ w \in { 1, 2, 4 }
            /\ divides(w)
            /\ \A v \in { 1, 2, 4 } : divides(v) => v <= w

C25_Witness ==
    /\ m_mode = "read" /\ m_pc = "wr_loop"
    /\ m_req[1] % 4 = 0 /\ m_req[2] % 4 = 2
    /\ m_align = ALIGN_HALFWORD

\* C26: with mindp false, every transaction count that cortexm_initial_halt
\* writes into the TRNCNT field of CTRLSTAT lies in 0x80..0xFFF, so that the
\* count stays inside the 12-bit field.
C26_TrncntWithinField ==
    (~mindp /\ trncnt_written # -1) => trncnt_written \in 128..4095

\* The transactions of adiv5_dp_init on CTRL/STAT, by position in i_log.
IsCtrlstat(k, op) == i_log[k].reg = "CTRLSTAT" /\ i_log[k].op = op
PowerUpRequestAt(k) == IsCtrlstat(k, "W") /\ PowerUpReq \subseteq i_log[k].val
PowerUpAckAt(k) == IsCtrlstat(k, "R") /\ PowerUpAck \subseteq i_log[k].val
ResetRequestAt(k) == IsCtrlstat(k, "W") /\ "CDBGRSTREQ" \in i_log[k].val

C28_ExceptionFreesDp ==
    i_pc = "raised" => dp.frees = 1

\* The positions of i_log at which ABORT is written.
AbortWrites == { k \in 1 .. Len(i_log) : i_log[k].reg = "ABORT" }

\* C29: adiv5_dp_init writes ABORT at most once, with DAPABORT, and only
\* right after its first transaction on CTRLSTAT, a read, ended in a timeout
\* exception; the read is then made once more and the power-up request
\* follows it. A read of CTRLSTAT that timed out is always answered so.
C29_AbortOnceAfterTimedOutRead ==
    /\ Cardinality(AbortWrites) <= 1
    /\ \A k \in AbortWrites :
          /\ i_log[k].op = "W" /\ i_log[k].val = "DAPABORT"
          /\ k > 1 /\ IsCtrlstat(k - 1, "Rx")
          /\ \A j \in 1 .. (k - 2) : i_log[j].reg # "CTRLSTAT"
          /\ k + 2 <= Len(i_log)
          /\ IsCtrlstat(k + 1, "R")
          /\ PowerUpRequestAt(k + 2)
    /\ \A k \in 1 .. Len(i_log) : IsCtrlstat(k, "Rx") => (k + 1) \in AbortWrites

C29_Witness ==
    /\ i_pc = "enum"
    /\ Cardinality(AbortWrites) = 1
    /\ Cardinality({ k \in 1 .. Len(i_log) : IsCtrlstat(k, "R") }) >= 3

\* C30: once adiv5_dp_init has decoded DPIDR, a DP whose designer code is
\* zero has version 0, whatever DPIDR read, so that TARGETID is not read on
\* a DP whose designer code is zero.
C30_ZeroDesignerIsVersionZero ==
    (i_pc # "idle" /\ i_how # "no_response" /\ i_designer = "zero") =>
        /\ i_version = 0
        /\ \A k \in 1 .. Len(i_log) : i_log[k].reg # "TARGETID"

\* C31: cortexm_prepare touches DEMCR and nRST only after
\* cortexm_initial_halt returned a non-zero DHCSR, and then in this order:
\* DEMCR is read and saved in the AP, DEMCR is written, nRST is deasserted,
\* DHCSR is polled; when the halt failed it returns false with DEMCR
\* unwritten, the AP's saved DEMCR unchanged and nRST unchanged.
C31_DemcrAndNrstAfterHalt ==
    /\ h_ops # << >> =>
          /\ halt_dhcsr # {} /\ h_pc \in { "reset_poll", "done" }
          /\ Len(h_ops) \in { 3, 4 }
          /\ SubSeq(h_ops, 1, 3) = << "read_demcr", "write_demcr", "nrst_release" >>
          /\ Len(h_ops) = 4 => h_ops[4] = "poll_dhcsr"
    /\ h_ops = << >> =>
          ~demcr_written /\ ~nrst_released /\ ap_cortexm_demcr = "unset"
    /\ (h_pc = "done" /\ halt_dhcsr = {}) => (prepare_ret = "false" /\ h_ops = << >>)
    /\ (h_pc = "done" /\ halt_dhcsr # {}) => Len(h_ops) = 4

C31_Witness ==
    /\ prepare_ret = "true" /\ h_pc = "done"
    /\ h_ops = << "read_demcr", "write_demcr", "nrst_release", "poll_dhcsr" >>

\* The last read among the first n of r_reads made at depth d or above it
\* (0: none), and entry i of the table on page.
RECURSIVE LastReadAbove(_, _)
LastReadAbove(d, n) ==
    IF n = 0 THEN 0
    ELSE IF r_reads[n][1] <= d THEN n ELSE LastReadAbove(d, n - 1)
EndsTable(page, i, faulted) == faulted = 1 \/ EntryIsZero(RomEntry(page, i))

\* C32: of a ROM table adiv5_component_probe reads the entries 0, 1, ... in
\* order, fewer than ROM_ENTRIES + 1 of them and none after a zero entry or
\* a faulted read; an entry that is not present, and a present entry whose
\* component was walked, with or without a fault in that walk, leave the
\* iteration at the next entry of the same table. Stated of the latest
\* read, which every read once was.
C32_EntriesReadInOrder ==
    LET n == Len(r_reads) IN
    n > 0 =>
       LET d == r_reads[n][1]
           page == r_reads[n][2]
           i == r_reads[n][3]
       IN  /\ i \in 0 .. (ROM_ENTRIES - 1)
           /\ i = 0 =>
                 \/ n = 1 /\ d = 1
                 \/ /\ n > 1 /\ d > 1
                    /\ r_reads[n - 1][1] = d - 1 /\ r_reads[n - 1][4] = 0
                    /\ LET up == RomEntry(r_reads[n - 1][2], r_reads[n - 1][3])
                       IN  EntryPresent(up) /\ EntryTarget(r_reads[n - 1][2], up) = page
           /\ i > 0 =>
                 LET j == LastReadAbove(d, n - 1)
                 IN  /\ j > 0
                     /\ r_reads[j] = << d, page, i - 1, 0 >>
                     /\ ~EntryIsZero(RomEntry(page, i - 1))
           /\ IF EndsTable(page, i, r_reads[n][4])
              THEN Len(r_stack) = d - 1
              ELSE \/ i + 1 = ROM_ENTRIES
                   \/ Len(r_stack) >= d /\ r_stack[d] = [ addr |-> page, i |-> i + 1 ]

C32_Witness ==
    /\ r_done
    /\ \E k \in 2 .. (Len(r_reads) - 1) :
          /\ r_reads[k - 1] = << 1, 1, 0, 0 >>
          /\ r_reads[k][1] = 2 /\ r_reads[k][4] = 1
          /\ r_reads[k + 1] = << 1, 1, 1, 0 >>
    /\ r_reads[Len(r_reads)] = << 1, 1, 3, 0 >>

\* The latest call of adiv5_component_probe met a component that identifies
\* as the Atmel DSU with the PROT bit of its CTRLSTAT word set.
CallMetProtectedDsu ==
    /\ r_call.id.designer = "atmel" /\ r_call.id.partno = 3280
    /\ r_call.id.ctrlstat = 65536

\* C33: at recursion 0, for a root ROM table that identifies as Atmel part
\* 0xcd0 with PROT set in the DSU CTRLSTAT word, adiv5_component_probe calls
\* cortexm_probe once and returns: no entry of the table is read and no
\* component is walked; at a recursion above 0, or with PROT clear, the walk
\* takes the ordinary path.
C33_ProtectedShortcutAtRootOnly ==
    /\ r_cortexm \in { 0, 1 }
    /\ (r_cortexm = 1) <=> (r_call.outcome = "protected")
    /\ r_cortexm = 1 =>
          /\ r_call.recursion = 0 /\ CallMetProtectedDsu
          /\ r_done /\ r_stack = << >> /\ r_reads = << >> /\ Len(r_probed) = 1
    /\ (r_call.recursion = 0 /\ CallMetProtectedDsu) => r_call.outcome # "romtab"
    /\ (r_call.recursion > 0 \/ ~CallMetProtectedDsu) => r_call.outcome # "protected"

C33_Witness ==
    /\ r_cortexm = 1 /\ r_done
    /\ r_rom[r_probed[1]].class = "romtab" /\ r_rom[r_probed[1]].entries # << >>

\* C34: after samd_probe accepted a protected part the first call of
\* t->attach runs samd_protected_attach, which prints its message, reads and
\* writes no target memory, halts nothing, returns true and sets t->attach
\* to cortexm_attach; every later call runs cortexm_attach. On a part that
\* is not protected samd_protected_attach is never installed and never run.
C34_ProtectedAttachOnce ==
    Probed =>
       LET hook == HookOf(tgt.hooks, "attach", "cortexm_attach") IN
       IF tgt.driver[1].prot
       THEN /\ a_log = << >> => hook = "samd_protected_attach"
            /\ a_log # << >> =>
                  /\ a_log[1].hook = "samd_protected_attach"
                  /\ a_log[1].ops = << "tc_printf" >> /\ a_log[1].ret = "true"
                  /\ hook = "cortexm_attach"
                  /\ \A k \in 2 .. Len(a_log) :
                        /\ a_log[k].hook = "cortexm_attach"
                        /\ a_log[k].ops = << "cortexm_attach" >>
       ELSE /\ hook # "samd_protected_attach"
            /\ \A k \in 1 .. Len(a_log) : a_log[k].hook # "samd_protected_attach"

C34_Witness ==
    /\ Probed /\ tgt.driver[1].prot
    /\ Len(a_log) = 3 /\ a_log[3].hook = "cortexm_attach"

\* C35: on a series 11 part samd_probe accepted, every call of t->attach
\* that finds CRSTEXT set in DSU CTRLSTAT clears it before cortexm_attach
\* runs, on the first call and on the later ones, protected or not.
C35_Series11AttachClearsCrstext ==
    (Probed /\ tgt.driver[1].samd[2] = 11) =>
       \A k \in 1 .. Len(a_log) :
          a_log[k].crstext =>
             \E i, j \in 1 .. Len(a_log[k].ops) :
                /\ i < j
                /\ a_log[k].ops[i] = "clear_crstext"
                /\ a_log[k].ops[j] = "cortexm_attach"

\* C36: on a series 20 revision B part one call of the halt_resume hook
\* runs the generic halt and resume once and returns: the hook is not
\* entered again while it runs.
C36_HaltResumeNotReentered ==
    (Probed /\ tgt.driver[1].samd[2] = 20 /\ tgt.driver[1].samd[7] = "B") =>
       /\ hr_depth <= 1
       /\ Cardinality({ k \in 1 .. Len(hr_ops) : hr_ops[k] = "samd20_revB_halt_resume" }) <= 1

\* C37: a call of samd_set_flashlock that completes leaves every bit of the
\* user row as it was read but bits 48 to 63, the upper half of the high
\* word, which hold the value given; a call of samd_set_bootprot every bit
\* but bits 0 to 2 of the low word. The accesses are, in order: the reads of
\* the high and the low word, the write of ADDRESS, ERASEAUXROW, the READY
\* poll, the writes of the low and the high word, WRITEAUXPAGE; no LOCK and
\* no UNLOCK command is issued.
C37_UserRowFrame ==
    (s_op \in { "set_flashlock", "set_bootprot" } /\ s_pc = "done" /\ ~poll_error) =>
       /\ IF s_op = "set_flashlock"
          THEN /\ user_row.low = ur_saved.low
               /\ user_row.high[2] = ur_saved.high[2]
               /\ user_row.high[1] = s_req[1]
          ELSE /\ user_row.high = ur_saved.high
               /\ user_row.low[1] = ur_saved.low[1]
               /\ user_row.low[2] \div 8 = ur_saved.low[2] \div 8
               /\ user_row.low[2] % 8 = s_req[1] % 8
       /\ [ k \in 1 .. Len(nvmc_log) |-> nvmc_log[k].reg ] =
             << "READ_USER_ROW_HIGH", "READ_USER_ROW_LOW", "ADDRESS", "CTRLA", "INTFLAG",
                "WRITE_USER_ROW_LOW", "WRITE_USER_ROW_HIGH", "CTRLA" >>
       /\ nvmc_log[3].val = EraseAddressValue(SAMD_NVM_USER_ROW_LOW)
       /\ IsCommand(4, SAMD_CTRLA_CMD_ERASEAUXROW)
       /\ IsCommand(8, SAMD_CTRLA_CMD_WRITEAUXPAGE)

C37_Witness ==
    /\ s_op = "set_flashlock" /\ s_pc = "done" /\ ~poll_error
    /\ ur_saved = [ low |-> << 4660, 43978 >>, high |-> << 0, 23130 >> ]
    /\ user_row = [ low |-> << 4660, 43978 >>, high |-> << 65535, 23130 >> ]

\* The CTRLA writes of the log that are LOCK or UNLOCK commands.
LockCommands ==
    { k \in CtrlaWrites :
        CmdOf(nvmc_log[k].val) \in { SAMD_CTRLA_CMD_LOCK, SAMD_CTRLA_CMD_UNLOCK } }

\* C38: when samd_flash_erase or samd_flash_write has returned, with 0 or
\* with -1, every UNLOCK command it issued is followed by a LOCK command: the
\* last of its LOCK and UNLOCK commands is a LOCK.
C38_UnlockFollowedByLock ==
    (s_op \in { "erase", "write" } /\ s_pc = "done") =>
        \A k \in LockCommands :
            IsCommand(k, SAMD_CTRLA_CMD_UNLOCK) =>
                \E j \in LockCommands : j > k /\ IsCommand(j, SAMD_CTRLA_CMD_LOCK)

\* C39: in firmware_mem_write_sized every TAR write after the setup is
\* followed by a DRW write, so that TAR is written again only when a further
\* element remains; after the last DRW write the only transaction is the
\* read of RDBUFF.
C39_TarOnlyBeforeFurtherData ==
    (m_mode = "write" /\ m_pc = "wr_done") =>
        \A k \in TarRewrites :
            /\ k + 1 <= Len(ap_log)
            /\ ap_log[k + 1].op = "DRW_W"

\* C40: adiv5_dp_init rejects an AP as a duplicate only when an earlier valid
\* AP of the same enumeration had the same BASE; the first valid AP is never
\* rejected as a duplicate, whatever its BASE.
C40_DuplicateHasEarlierAp ==
    d_how = "duplicate" =>
        /\ ~d_first_valid_dup
        /\ d_prev # NoAp
        /\ d_prev.base = d_cur.base

================================================================
